---- MODULE Spec2Model ----
(***************************************************************************)
(* GameSaver backup service (src/main/services/backupService.ts):         *)
(* backupGame, restoreSnapshot, deleteSnapshot, verifySnapshot and their   *)
(* helpers, run as cooperative tasks of one event loop.  Every action is   *)
(* the code between two awaits of one call.                                *)
(***************************************************************************)
EXTENDS Naturals, Integers, Sequences, FiniteSets, TLC

\* ------------------------------------------------------------------ bounds
MaxOps == 2
MaxFaults == 2
MaxTamper == 1
MaxRetention == 1
MaxRows == 3

\* ------------------------------------------------------- fixed world data
Tasks == {1, 2}
Games == {"g1", "g2"}
RequestGameIds == {"g1", "g2"}
LocIds == {"l1", "l2", "l3"}
Contents == {1, 2}

LocGame(l) == IF l = "l3" THEN "g2" ELSE "g1"
LocPath(l) ==
  CASE l = "l1" -> <<"d1", "/", "Saves">>
    [] l = "l2" -> <<"d2", "/", "saves">>
    [] OTHER    -> <<"d3", "/", "Saves">>

\* ------------------------------------------------------------- variables
VARIABLES
  status,          \* db.state.games: game id -> status
  saveLocations,   \* db.state.saveLocations: location id -> row
  snapshots,       \* db.state.snapshots (array)
  snapshotFiles,   \* db.state.snapshotFiles (array)
  eventLog,        \* db.state.eventLogs, the rows of each game_id in order
  inFlight,        \* the module-level Set of game ids
  retentionCount,  \* settings.retentionCount
  saveDisk,        \* the save locations on disk: location id -> [present, files]
  snapDirs,        \* snapshot directories on disk: root -> [manifest, files]
  tasks,           \* the running calls: task -> locals and position
  nextUuid,        \* source of uuid()
  clock,           \* source of new Date()
  opsStarted, faults, tampers,
  opsLimit,        \* the number of requests a run admits
  gameFolders,     \* the game folders of the storage root: folder -> metadata.json
  lostIndex,       \* the rows the index held when it was emptied
  pathIn, pathLog, \* one file row of a verify or restore: its paths, what is touched
  ckIn, ckOut,     \* a list of file rows and the checksum computed from it
  roundTrip,       \* a manifest written and read back
  settingsRun,     \* settingsService: cachedSettings, settings.json, the storage roots
  ipcRun,          \* main: startupState, db, settings, and the last request handled
  detectRun,       \* one call of detectCatalogSavePaths
  catalogRun,      \* the catalog file, catalogCache and the last load
  folderRun,       \* the storage folders of one snapshot and the copies into them
  splitRun,        \* one call of splitCompositeLocation
  mainRun,         \* main: startupState, db, userData and the settings:update calls under way
  gameRows,        \* db.state.games with each folder_name, and the scans run on them
  applyRun         \* one call of applyCatalogDetectionForGame and its confirmation dialog

mainVars == <<status, saveLocations, snapshots, snapshotFiles, eventLog, inFlight,
              retentionCount, saveDisk, snapDirs, tasks, nextUuid, clock,
              opsStarted, faults, tampers, opsLimit,
              gameFolders, lostIndex>>
pathVars == <<pathIn, pathLog>>
ckVars == <<ckIn, ckOut>>
moreVars == <<roundTrip, settingsRun, ipcRun, detectRun, catalogRun, folderRun, splitRun, mainRun, gameRows, applyRun>>
vars == <<mainVars, pathVars, ckVars, moreVars>>

\* ------------------------------------------------------------ primitives
Max(a, b) == IF a >= b THEN a ELSE b
Min(a, b) == IF a <= b THEN a ELSE b

Range(s) == {s[i] : i \in 1..Len(s)}

\* hash.ts: SHA-256 of a file's bytes / of a text; collision free here
hashFile(content) == <<"sha256", content>>
hashText(payload) == <<"sha256-text", payload>>
\* fs.Stats.size of a file with this content
statSize(content) == content

\* String.prototype.toLowerCase on the name tokens used here
LowerToken(tok) ==
  CASE tok = "Saves" -> "saves"
    [] tok = "File" -> "file"
    [] tok = "Folder" -> "folder"
    [] tok = "S" -> "s"
    [] OTHER -> tok
toLowerCase(name) == [i \in 1..Len(name) |-> LowerToken(name[i])]

\* rank of a relative path under String.prototype.localeCompare
RelRank(rel) ==
  CASE rel = <<"a">> -> 1
    [] rel = <<"saves">> -> 2
    [] OTHER -> 3

\* a name or a path is the sequence of its tokens; "/" separates the segments
\* of a path, " " is a blank
RECURSIVE dropTrailingSeparators(_)
dropTrailingSeparators(p) ==
  IF p # <<>> /\ p[Len(p)] = "/" THEN dropTrailingSeparators(SubSeq(p, 1, Len(p) - 1))
  ELSE p

RECURSIVE LastSegment(_)
LastSegment(p) ==
  IF p = <<>> \/ p[Len(p)] = "/" THEN <<>>
  ELSE Append(LastSegment(SubSeq(p, 1, Len(p) - 1)), p[Len(p)])

\* path.basename of a location path
basename(p) == LastSegment(dropTrailingSeparators(p))

\* String.prototype.trim
RECURSIVE trimStart(_)
trimStart(str) == IF str # <<>> /\ Head(str) = " " THEN trimStart(Tail(str)) ELSE str

RECURSIVE trimEnd(_)
trimEnd(str) ==
  IF str # <<>> /\ str[Len(str)] = " " THEN trimEnd(SubSeq(str, 1, Len(str) - 1)) ELSE str

trim(str) == trimEnd(trimStart(str))

\* runs of blanks become one blank
RECURSIVE collapseWhitespace(_)
collapseWhitespace(str) ==
  IF Len(str) < 2 THEN str
  ELSE IF str[1] = " " /\ str[2] = " " THEN collapseWhitespace(Tail(str))
  ELSE <<Head(str)>> \o collapseWhitespace(Tail(str))

\* storage.ts toSafeGameFolderName: strips the reserved characters and
\* collapses whitespace, leaving none at the ends
ReservedTokens == {":", "*", "?"}
toSafeGameFolderName(name) ==
  trim(collapseWhitespace(SelectSeq(name, LAMBDA tok : tok \notin ReservedTokens)))

\* names on the backup volume are case-insensitive (win32)
FsKey(name) == toLowerCase(name)

\* ------------------------------------------------------------ row shapes
NoRoot == <<"", 0, 0>>
NoSnapshot ==
  [id |-> 0, game_id |-> "", created_at |-> 0, size_bytes |-> 0,
   checksum |-> hashText(<<>>), storage_path |-> NoRoot, reason |-> ""]
NoManifest ==
  [version |-> 0, snapshot_id |-> 0, created_at |-> 0, reason |-> "",
   locations |-> <<>>]
NoScan == [added |-> 0, removed |-> 0, removedFiles |-> 0, unknown |-> 0, invalid |-> 0]
NoResult ==
  [kind |-> "none", snapshot |-> NoSnapshot, error |-> "", issues |-> 0, scan |-> NoScan]
NullResult == [NoResult EXCEPT !.kind = "null"]
VoidResult == [NoResult EXCEPT !.kind = "void"]
SnapshotResult(snap) == [NoResult EXCEPT !.kind = "snapshot", !.snapshot = snap]
ThrowResult(err) == [NoResult EXCEPT !.kind = "throw", !.error = err]
VerifyResult(n) == [NoResult EXCEPT !.kind = IF n = 0 THEN "ok" ELSE "issues", !.issues = n]

IdleTask ==
  [op |-> "idle", pc |-> "idle", rejected |-> FALSE,
   gameId |-> "", reason |-> "", skipRetention |-> FALSE,
   snapshotId |-> 0, createdAt |-> 0, snapshotRoot |-> NoRoot,
   locations |-> <<>>, folders |-> <<>>, snapshotFiles |-> <<>>,
   totalSize |-> 0, warnings |-> 0, li |-> 0, fi |-> 0, curFiles |-> <<>>,
   snapshot |-> NoSnapshot, committed |-> FALSE, toRemove |-> <<>>,
   delTarget |-> NoSnapshot, error |-> "", result |-> NoResult,
   rSnapshot |-> NoSnapshot, rLocations |-> <<>>, rFiles |-> <<>>,
   rManifest |-> NoManifest, safety |-> "none", safetySnapshot |-> NoSnapshot,
   written |-> 0, strayCopy |-> 0, stray |-> 0,
   \* scanSnapshotsFromDisk: existingSnapshotIds, existingSnapshotStoragePaths
   seenIds |-> {}, seenPaths |-> {},
   \* history of the call, for stating properties: the rows of the game right
   \* after the commit, the ids of these that other calls removed since, the
   \* number of file rows recorded, and which "Backup skipped" branch was taken
   atCommit |-> <<>>, others |-> {}, nFiles |-> 0, skipped |-> "none"]

\* ------------------------------------------- storage folders of a snapshot
SuffixToken(n) ==
  CASE n = 2 -> " (2)"
    [] n = 3 -> " (3)"
    [] n = 4 -> " (4)"
    [] OTHER -> " (5)"

RECURSIVE NextFreeFolderName(_, _, _)
NextFreeFolderName(base, used, suffix) ==
  LET candidate == Append(base, SuffixToken(suffix))
  IN IF toLowerCase(candidate) \in used
     THEN NextFreeFolderName(base, used, suffix + 1)
     ELSE candidate

\* variant: the base name is used as it is, taken or not
ensureUniqueFolderNameTaken(base, used) == base

ensureUniqueFolderName(base, used) ==
  IF toLowerCase(base) \in used THEN NextFreeFolderName(base, used, 2) ELSE base

resolveLocationStorageFolderBase(location) ==
  LET name == basename(location.path)
      fallback == IF location.type = "file" THEN <<"File">> ELSE <<"Folder">>
      safe == toSafeGameFolderName(IF name = <<>> THEN fallback ELSE name)
  IN IF Len(safe) > 0 THEN safe ELSE fallback

\* the folder of locations[i], for every i (the Map of the code, in list order)
RECURSIVE FoldersFrom(_, _, _)
FoldersFrom(locations, i, used) ==
  IF i > Len(locations) THEN <<>>
  ELSE LET unique == ensureUniqueFolderName(
                       resolveLocationStorageFolderBase(locations[i]), used)
       IN <<unique>> \o FoldersFrom(locations, i + 1, used \cup {toLowerCase(unique)})

buildLocationStorageFolders(locations) == FoldersFrom(locations, 1, {})

\* ------------------------------------------------------ snapshot checksum
\* Array.prototype.sort is stable: insertion after the last element that is
\* not greater keeps the input order of rows the comparator calls equal
RelCompare(a, b) == RelRank(a.relative_path) - RelRank(b.relative_path)

RECURSIVE InsertSorted(_, _)
InsertSorted(sorted, row) ==
  IF sorted = <<>> THEN <<row>>
  ELSE IF RelCompare(Head(sorted), row) <= 0
       THEN <<Head(sorted)>> \o InsertSorted(Tail(sorted), row)
       ELSE <<row>> \o sorted

RECURSIVE SortByRelativePath(_)
SortByRelativePath(files) ==
  IF files = <<>> THEN <<>>
  ELSE InsertSorted(SortByRelativePath(SubSeq(files, 1, Len(files) - 1)),
                    files[Len(files)])

computeSnapshotChecksum(files) ==
  LET sorted == SortByRelativePath(files)
      payload == [i \in 1..Len(sorted) |->
                    <<sorted[i].location_id, sorted[i].relative_path,
                      sorted[i].checksum, sorted[i].size_bytes>>]
  IN hashText(payload)

\* ---------------------------------------------------------- retention list
\* variant: left.created_at.localeCompare(right.created_at), oldest first
RECURSIVE InsertOldestFirst(_, _)
InsertOldestFirst(sorted, row) ==
  IF sorted = <<>> THEN <<row>>
  ELSE IF Head(sorted).created_at <= row.created_at
       THEN <<Head(sorted)>> \o InsertOldestFirst(Tail(sorted), row)
       ELSE <<row>> \o sorted

\* right.created_at.localeCompare(left.created_at): newest first, stable
RECURSIVE InsertNewestFirst(_, _)
InsertNewestFirst(sorted, row) ==
  IF sorted = <<>> THEN <<row>>
  ELSE IF Head(sorted).created_at >= row.created_at
       THEN <<Head(sorted)>> \o InsertNewestFirst(Tail(sorted), row)
       ELSE <<row>> \o sorted

RECURSIVE SortNewestFirst(_)
SortNewestFirst(rows) ==
  IF rows = <<>> THEN <<>>
  ELSE InsertNewestFirst(SortNewestFirst(SubSeq(rows, 1, Len(rows) - 1)),
                         rows[Len(rows)])

\* variant: the slice starts one row late
RetentionKeepOneMore(count) == Max(1, count) + 1

\* line 521
RetentionKeep(count) == Max(1, count)

\* the ids applyRetentionPolicy is going to delete, in order
RetentionToRemove(rows, count, gameId) ==
  LET mine == SortNewestFirst(SelectSeq(rows, LAMBDA r : r.game_id = gameId))
      keep == RetentionKeep(count)
  IN IF Len(mine) <= keep THEN <<>>
     ELSE [i \in 1..(Len(mine) - keep) |-> mine[keep + i].id]

\* ------------------------------------------------------- snapshot folders
formatSnapshotTimestamp(createdAt) == createdAt

isDirectoryPath(dirs, root) == root \in DOMAIN dirs

getSnapshotRoot(gameFolder, stamp, suffix) == <<gameFolder, stamp, suffix>>

RECURSIVE NextFreeSnapshotFolder(_, _, _, _)
NextFreeSnapshotFolder(dirs, gameFolder, stamp, suffix) ==
  IF isDirectoryPath(dirs, getSnapshotRoot(gameFolder, stamp, suffix))
  THEN NextFreeSnapshotFolder(dirs, gameFolder, stamp, suffix + 1)
  ELSE suffix

\* suffix 1 stands for the bare timestamp, n > 1 for "<timestamp>_n"
resolveUniqueSnapshotFolderName(dirs, gameFolder, createdAt) ==
  NextFreeSnapshotFolder(dirs, gameFolder, formatSnapshotTimestamp(createdAt), 1)

\* ---------------------------------------------------------------- manifest
\* a manifest file as JSON.parse gives it: the fields it has and their values.
\* snapshot_id: n > 0 is the id n, 0 a blank text, -n the id n with blanks
\* around it; created_at: n > 0 is the ISO text of instant n, 0 a blank text,
\* n < 0 a text that is no date
ManifestFields == {"version", "snapshot_id", "created_at", "reason", "locations"}

\* variant: the storage folder is written with a blank after it
ManifestLocationPadded(location, folder) ==
  [id |-> location.id, path |-> location.path, type |-> location.type,
   auto_detected |-> location.auto_detected, enabled |-> location.enabled,
   storage_folder |-> Append(folder, " ")]

\* lines 609-617: the entry of one location
ManifestLocation(location, folder) ==
  [id |-> location.id, path |-> location.path, type |-> location.type,
   auto_detected |-> location.auto_detected, enabled |-> location.enabled,
   storage_folder |-> folder]

\* writeSnapshotManifest: the payload that is stringified into the file
ManifestPayload(snapshot, locations, folders) ==
  [fields |-> ManifestFields,
   version |-> 2, snapshot_id |-> snapshot.id, created_at |-> snapshot.created_at,
   reason |-> snapshot.reason,
   locations |-> [i \in 1..Len(locations) |-> ManifestLocation(locations[i], folders[i])]]

\* String.prototype.trim on the text of an id
trimId(text) == IF text < 0 THEN -text ELSE text

\* variant: any version passes
VersionAccepted(doc) == "version" \in doc.fields

\* line 632
VersionIsTwo(doc) == "version" \in doc.fields /\ doc.version = 2

\* lines 632-650 and 677-680: the checks that make readSnapshotManifest return null
ManifestValid(doc) ==
  /\ VersionIsTwo(doc)
  /\ "snapshot_id" \in doc.fields /\ trimId(doc.snapshot_id) # 0
  /\ "created_at" \in doc.fields /\ doc.created_at # 0
  /\ "reason" \in doc.fields /\ doc.reason \in {"auto", "manual", "pre-restore"}
  /\ "locations" \in doc.fields
  /\ doc.created_at > 0

\* lines 657-666: the entries of locations that are kept
ManifestLocationValid(loc) ==
  loc.type \in {"file", "folder"} /\ Len(trim(loc.storage_folder)) > 0

\* the manifest of a directory, or NoManifest (the code's null)
readSnapshotManifest(dirs, root) ==
  IF root \notin DOMAIN dirs THEN NoManifest
  ELSE IF dirs[root].manifest = NoManifest THEN NoManifest
  ELSE LET doc == dirs[root].manifest
           kept == IF ManifestValid(doc)
                   THEN SelectSeq(doc.locations, ManifestLocationValid) ELSE <<>>
       IN IF ~ManifestValid(doc) THEN NoManifest
          ELSE [version |-> 2, snapshot_id |-> trimId(doc.snapshot_id),
                created_at |-> doc.created_at, reason |-> doc.reason,
                locations |-> [i \in 1..Len(kept) |->
                                 [kept[i] EXCEPT !.storage_folder = trim(@)]]]

\* manifest.locations[locationId].storage_folder, <<>> when there is none
ManifestStorageFolder(manifest, locationId) ==
  LET hits == SelectSeq(manifest.locations, LAMBDA loc : loc.id = locationId)
  IN IF hits = <<>> THEN <<>> ELSE hits[Len(hits)].storage_folder

\* ------------------------------------------------------------ disk helpers
EmptyFiles == [x \in {} |-> 0]

DropKey(f, k) == [x \in (DOMAIN f) \ {k} |-> f[x]]

\* write one file below a snapshot directory (parents are created)
PutFile(dirs, root, key, content) ==
  LET old == IF root \in DOMAIN dirs THEN dirs[root]
             ELSE [manifest |-> NoManifest, files |-> EmptyFiles]
  IN (root :> [old EXCEPT !.files = (key :> content) @@ old.files]) @@ dirs

\* storage.ts ensureDir
ensureDir(dirs, root) ==
  IF root \in DOMAIN dirs THEN dirs
  ELSE (root :> [manifest |-> NoManifest, files |-> EmptyFiles]) @@ dirs

\* the relative paths below a folder, in walk order
RECURSIVE SetToSortedSeq(_)
SetToSortedSeq(S) ==
  IF S = {} THEN <<>>
  ELSE LET first == CHOOSE x \in S : \A y \in S : RelRank(x) <= RelRank(y)
       IN <<first>> \o SetToSortedSeq(S \ {first})

\* fileOps.ts walkFiles, as paths relative to the walked folder
walkFiles(disk, locationId) == SetToSortedSeq(DOMAIN disk[locationId].files)

\* relative paths of the files backupGame copies for a location
listFilesForLocation(disk, location) ==
  IF location.type = "file" THEN <<basename(location.path)>>
  ELSE walkFiles(disk, location.id)

\* ---------------------------------------------------------- the index (db)
\* saveLocationService.ts listSaveLocations
listSaveLocations(locs, gameId) == SelectSeq(locs, LAMBDA loc : loc.game_id = gameId)

FindSnapshot(rows, snapshotId) ==
  LET hits == SelectSeq(rows, LAMBDA r : r.id = snapshotId)
  IN IF hits = <<>> THEN NoSnapshot ELSE Head(hits)

FindLocation(locations, locationId) == SelectSeq(locations, LAMBDA loc : loc.id = locationId)

\* eventLogService.ts logEvent
logEvent(w, gameId, type, text, detail) ==
  [w EXCEPT !.log[gameId] = Append(@, [type |-> type, text |-> text, detail |-> detail])]

\* gameService.ts updateGameStatus
updateGameStatus(w, gameId, newStatus) ==
  IF gameId \in DOMAIN w.st THEN [w EXCEPT !.st[gameId] = newStatus] ELSE w

\* variant: only the snapshot row is dropped, its file rows stay
deleteSnapshotRowOnly(w, snapshotId) ==
  [w EXCEPT !.snaps = SelectSeq(@, LAMBDA r : r.id # snapshotId)]

\* the rows deleteSnapshot drops once the directory is gone
deleteSnapshotRows(w, snapshotId) ==
  [w EXCEPT !.snaps = SelectSeq(@, LAMBDA r : r.id # snapshotId),
            !.files = SelectSeq(@, LAMBDA f : f.snapshot_id # snapshotId)]

removeDir(w, root) == [w EXCEPT !.dirs = DropKey(@, root)]

\* a call that has settled: its locals are gone, what it returned or threw and
\* what it did stay visible
Settle(w, outcome) ==
  LET k == w.tk IN
  [w EXCEPT !.tk = [IdleTask EXCEPT
                      !.op = k.op, !.pc = "done", !.result = outcome,
                      !.rejected = k.rejected, !.gameId = k.gameId,
                      !.reason = k.reason, !.skipRetention = k.skipRetention,
                      !.snapshotId = k.snapshotId, !.snapshotRoot = k.snapshotRoot,
                      !.snapshot = k.snapshot, !.committed = k.committed,
                      !.warnings = k.warnings, !.error = k.error,
                      !.delTarget = k.delTarget,
                      !.rSnapshot = k.rSnapshot, !.safety = k.safety,
                      !.safetySnapshot = k.safetySnapshot, !.written = k.written,
                      !.stray = k.stray,
                      !.atCommit = k.atCommit, !.others = k.others,
                      !.nFiles = k.nFiles, !.skipped = k.skipped]]

\* --------------------------------------------------------- restoreSnapshot
\* variant: the result of the pre-restore backup is not looked at
SafetyBackupIgnored(outcome) == FALSE

\* true when the pre-restore backup gave no snapshot
SafetyBackupMissing(outcome) == outcome.kind = "null"

\* one file row is skipped when its location is gone or disabled
RestoreSkipsLocation(hits) == hits = <<>> \/ ~hits[1].enabled

\* history: 1 when the index, at the time a copy is started, holds no enabled
\* row of the location written to
StrayWrite(locs, locationId) ==
  IF RestoreSkipsLocation(FindLocation(locs, locationId)) THEN 1 ELSE 0

\* the for-loop of restoreSnapshot, run up to its next await
RECURSIVE RestoreLoop(_)
RestoreLoop(w) ==
  LET k == w.tk IN
  IF k.fi > Len(k.rFiles)
  THEN Settle(logEvent(w, k.gameId, "restore", "Snapshot restored", ""), VoidResult)
  ELSE LET file == k.rFiles[k.fi]
           hits == FindLocation(k.rLocations, file.location_id)
           folder == ManifestStorageFolder(k.rManifest, file.location_id)
       IN IF RestoreSkipsLocation(hits)
          THEN RestoreLoop([w EXCEPT !.tk.fi = @ + 1])
          ELSE IF folder = <<>>
          THEN Settle(w, ThrowResult("missing storage mapping"))
          ELSE IF \/ k.rSnapshot.storage_path \notin DOMAIN w.dirs
                  \/ <<FsKey(folder), file.relative_path>> \notin
                       DOMAIN w.dirs[k.rSnapshot.storage_path].files
          THEN RestoreLoop([w EXCEPT !.tk.fi = @ + 1])
          ELSE [w EXCEPT !.tk.pc = "rcopy",
                         !.tk.strayCopy = StrayWrite(w.locs, file.location_id)]

\* the code after `await backupGame(..., 'pre-restore', ...)`
RestoreAfterSafety(w, outcome) ==
  IF outcome.kind = "throw"
  THEN Settle([w EXCEPT !.tk.safety = "throw"], outcome)
  ELSE IF SafetyBackupMissing(outcome)
  THEN Settle([w EXCEPT !.tk.safety = "null"], ThrowResult("Restore blocked"))
  ELSE RestoreLoop([w EXCEPT !.tk.safety = outcome.kind,
                             !.tk.safetySnapshot = outcome.snapshot,
                             !.tk.fi = 1])

\* -------------------------------------------------------------- backupGame
\* the save-location handlers of main start backupGame(..., 'auto') without
\* awaiting it, and log its rejection
AutoBackupFailed(w, outcome) ==
  Settle(logEvent(w, w.tk.gameId, "error", "Auto backup failed", outcome.error), outcome)

ReturnToCaller(w, outcome) ==
  IF w.tk.op = "restore" THEN RestoreAfterSafety(w, outcome)
  ELSE IF w.tk.op = "auto" /\ outcome.kind = "throw" THEN AutoBackupFailed(w, outcome)
  ELSE Settle(w, outcome)

\* variant: the return or throw without the finally block
ReturnWithoutFinally(w, outcome) == ReturnToCaller(w, outcome)

\* the finally block, then the return or throw
Finally(w, outcome) ==
  ReturnToCaller([w EXCEPT !.inf = @ \ {w.tk.gameId}], outcome)

\* the catch block up to `await removeDirSafe(snapshotRoot)`
Catch(w, err) ==
  [logEvent(updateGameStatus(w, w.tk.gameId, "warning"),
            w.tk.gameId, "error", "Backup failed", err)
     EXCEPT !.tk.error = err, !.tk.pc = "rollback"]

\* the error a failed rollback leaves the call with
RollbackError(original, removeError) == removeError

\* variant: the warnings of the location loop are not looked at
StatusAlwaysProtected(warnings) == "protected"

\* line 408
StatusAfterBackup(warnings) == IF warnings > 0 THEN "warning" ELSE "protected"

\* lines 408-410: status, event, return snapshot
BackupSuccess(w) ==
  LET k == w.tk IN
  Finally(logEvent(updateGameStatus(w, k.gameId, StatusAfterBackup(k.warnings)),
                   k.gameId, "backup", "Snapshot created", k.reason),
          SnapshotResult(k.snapshot))

\* applyRetentionPolicy's loop, run up to the next await of deleteSnapshot
RECURSIVE RetentionLoop(_)
RetentionLoop(w) ==
  LET k == w.tk IN
  IF k.toRemove = <<>> THEN BackupSuccess(w)
  ELSE LET row == FindSnapshot(w.snaps, Head(k.toRemove))
       IN IF row = NoSnapshot
          THEN RetentionLoop([w EXCEPT !.tk.toRemove = Tail(@)])
          ELSE [w EXCEPT !.tk.delTarget = row, !.tk.pc = "retention"]

\* variant: retention runs on the rows as they would be, before they are pushed
RetentionBeforeCommit(w) ==
  LET k == w.tk IN
  IF k.skipRetention THEN BackupSuccess(w)
  ELSE RetentionLoop([w EXCEPT !.tk.toRemove =
                        RetentionToRemove(Append(w.snaps, k.snapshot),
                                          retentionCount, k.gameId)])

\* lines 400-406: commit the rows, then retention unless skipped
CommitSnapshot(w) ==
  LET k == w.tk
      w1 == [w EXCEPT !.snaps = Append(@, k.snapshot),
                      !.files = @ \o k.snapshotFiles,
                      !.tk.committed = TRUE,
                      !.tk.nFiles = Len(k.snapshotFiles),
                      !.tk.atCommit = SelectSeq(Append(w.snaps, k.snapshot),
                                         LAMBDA r : r.game_id = k.gameId)]
  IN IF k.skipRetention THEN BackupSuccess(w1)
     ELSE RetentionLoop([w1 EXCEPT !.tk.toRemove =
                           RetentionToRemove(w1.snaps, retentionCount, k.gameId)])

\* variant: no check for an empty file list
AfterLocationsUnchecked(w) ==
  LET k == w.tk IN
  [w EXCEPT !.tk.pc = "manifest",
            !.tk.snapshot =
               [id |-> k.snapshotId, game_id |-> k.gameId,
                created_at |-> k.createdAt, size_bytes |-> k.totalSize,
                checksum |-> computeSnapshotChecksum(k.snapshotFiles),
                storage_path |-> k.snapshotRoot, reason |-> k.reason]]

\* lines 382-397: after the location loop
AfterLocations(w) ==
  LET k == w.tk IN
  IF k.snapshotFiles = <<>>
  THEN [logEvent(updateGameStatus(w, k.gameId, "warning"), k.gameId, "error",
                 "Backup skipped: no files found in enabled save locations.", "")
          EXCEPT !.tk.pc = "removeEmpty", !.tk.skipped = "no-files"]
  ELSE [w EXCEPT !.tk.pc = "manifest",
                 !.tk.snapshot =
                    [id |-> k.snapshotId, game_id |-> k.gameId,
                     created_at |-> k.createdAt, size_bytes |-> k.totalSize,
                     checksum |-> computeSnapshotChecksum(k.snapshotFiles),
                     storage_path |-> k.snapshotRoot, reason |-> k.reason]]

\* the head of `for (const location of locations)`, run up to the next await
RECURSIVE BackupLoop(_)
BackupLoop(w) ==
  LET k == w.tk IN
  IF k.li > Len(k.locations) THEN AfterLocations(w)
  ELSE IF ~w.disk[k.locations[k.li].id].present
  THEN BackupLoop(logEvent([w EXCEPT !.tk.warnings = @ + 1, !.tk.li = @ + 1],
                           k.gameId, "error", "Save location missing",
                           k.locations[k.li].id))
  ELSE [w EXCEPT !.tk.pc = "list"]

\* variant: no in-flight check
IsInFlightNever(inf, gameId) == FALSE

\* the in-flight check of line 324
IsInFlight(inf, gameId) == gameId \in inf

\* lines 324-358: the call up to its first await
BackupEnter(w, gameId, reason, skipRetention) ==
  IF IsInFlight(w.inf, gameId)
  THEN ReturnToCaller([w EXCEPT !.tk.rejected = TRUE, !.tk.gameId = gameId],
                      NullResult)
  ELSE IF gameId \notin DOMAIN w.st
  THEN ReturnToCaller([w EXCEPT !.tk.gameId = gameId], ThrowResult("Game not found"))
  ELSE
    LET suffix == resolveUniqueSnapshotFolderName(w.dirs, gameId, w.clk)
        root == getSnapshotRoot(gameId, formatSnapshotTimestamp(w.clk), suffix)
        locations == SelectSeq(listSaveLocations(w.locs, gameId), LAMBDA loc : loc.enabled)
        w1 == [w EXCEPT !.inf = @ \cup {gameId},
                        !.uuid = @ + 1,
                        !.dirs = ensureDir(@, root),
                        !.tk.gameId = gameId, !.tk.reason = reason,
                        !.tk.skipRetention = skipRetention,
                        !.tk.snapshotId = w.uuid, !.tk.createdAt = w.clk,
                        !.tk.snapshotRoot = root,
                        !.tk.locations = locations,
                        !.tk.folders = buildLocationStorageFolders(locations),
                        !.tk.snapshotFiles = <<>>, !.tk.totalSize = 0,
                        !.tk.warnings = 0, !.tk.li = 1, !.tk.fi = 0,
                        !.tk.snapshot = NoSnapshot, !.tk.committed = FALSE,
                        !.tk.toRemove = <<>>, !.tk.error = ""]
    IN IF Len(locations) = 0
       THEN Finally(logEvent(updateGameStatus([w1 EXCEPT !.tk.skipped = "no-locations"],
                                              gameId, "warning"),
                             gameId, "error",
                             "Backup skipped: no enabled save locations.", ""),
                    NullResult)
       ELSE BackupLoop(w1)

\* ---------------------------------------------------------- verifySnapshot
\* variant: only the existence of the file is checked
FileMissing(dirs, root, key, file) == key \notin DOMAIN dirs[root].files

\* one file row counts as an issue when its file is gone or hashes differently
FileHasIssue(dirs, root, key, file) ==
  \/ key \notin DOMAIN dirs[root].files
  \/ hashFile(dirs[root].files[key]) # file.checksum

\* the for-loop of verifySnapshot over the rows from position i
RECURSIVE VerifyLoop(_, _, _, _, _, _)
VerifyLoop(dirs, root, manifest, files, i, issues) ==
  IF i > Len(files) THEN VerifyResult(issues)
  ELSE LET folder == ManifestStorageFolder(manifest, files[i].location_id)
       IN IF folder = <<>> THEN ThrowResult("missing storage mapping")
          ELSE VerifyLoop(dirs, root, manifest, files, i + 1,
                 issues + (IF FileHasIssue(dirs, root,
                                 <<FsKey(folder), files[i].relative_path>>, files[i])
                           THEN 1 ELSE 0))

verifySnapshot(rows, fileRows, dirs, snapshotId) ==
  LET snapshot == FindSnapshot(rows, snapshotId)
      files == SelectSeq(fileRows, LAMBDA f : f.snapshot_id = snapshotId)
      manifest == readSnapshotManifest(dirs, snapshot.storage_path)
  IN IF snapshot = NoSnapshot THEN ThrowResult("Snapshot not found")
     ELSE IF manifest = NoManifest
     THEN ThrowResult("Snapshot manifest is missing or invalid.")
     ELSE VerifyLoop(dirs, snapshot.storage_path, manifest, files, 1, 0)

\* ------------------------------------------------------------------- paths
\* a path is the sequence of its characters; Sep stands for path.sep
Sep == "/"
Cwd == <<"/", "w">>

startsWith(str, prefix) ==
  Len(prefix) <= Len(str) /\ SubSeq(str, 1, Len(prefix)) = prefix
endsWith(str, suffix) ==
  Len(suffix) <= Len(str) /\ SubSeq(str, Len(str) - Len(suffix) + 1, Len(str)) = suffix
isAbsolute(p) == Len(p) > 0 /\ p[1] = Sep

\* the segments of a path between its separators
RECURSIVE SplitPath(_)
SplitPath(p) ==
  IF p = <<>> THEN << <<>> >>
  ELSE LET rest == SplitPath(Tail(p))
       IN IF Head(p) = Sep THEN << <<>> >> \o rest
          ELSE << <<Head(p)>> \o Head(rest) >> \o Tail(rest)

\* normalizeString of node's path module: "." and empty segments go, ".."
\* takes the segment before it
RECURSIVE Collapse(_, _, _)
Collapse(segs, stack, absolute) ==
  IF segs = <<>> THEN stack
  ELSE LET seg == Head(segs)
           next ==
             IF seg = <<>> \/ seg = <<".">> THEN stack
             ELSE IF seg = <<".", ".">>
             THEN IF stack # <<>> /\ stack[Len(stack)] # <<".", ".">>
                  THEN SubSeq(stack, 1, Len(stack) - 1)
                  ELSE IF absolute THEN stack ELSE Append(stack, seg)
             ELSE Append(stack, seg)
       IN Collapse(Tail(segs), next, absolute)

RECURSIVE JoinSegments(_)
JoinSegments(segs) ==
  IF segs = <<>> THEN <<>>
  ELSE IF Len(segs) = 1 THEN Head(segs)
  ELSE Head(segs) \o <<Sep>> \o JoinSegments(Tail(segs))

\* path.normalize
pathNormalize(p) ==
  LET segs == Collapse(SplitPath(p), <<>>, isAbsolute(p))
      joined == JoinSegments(segs)
      trailing == IF Len(p) > 0 /\ p[Len(p)] = Sep /\ segs # <<>> THEN <<Sep>> ELSE <<>>
  IN IF isAbsolute(p) THEN <<Sep>> \o joined \o trailing
     ELSE IF segs = <<>> THEN <<".">> ELSE joined \o trailing

\* path.resolve: the arguments from the right up to the first absolute one
RECURSIVE ResolveFrom(_, _, _)
ResolveFrom(parts, i, resolved) ==
  IF i = 0 THEN Cwd \o <<Sep>> \o resolved
  ELSE IF parts[i] = <<>> THEN ResolveFrom(parts, i - 1, resolved)
  ELSE IF isAbsolute(parts[i]) THEN parts[i] \o <<Sep>> \o resolved
  ELSE ResolveFrom(parts, i - 1, parts[i] \o <<Sep>> \o resolved)

pathResolve(parts) ==
  <<Sep>> \o JoinSegments(Collapse(SplitPath(ResolveFrom(parts, Len(parts), <<>>)),
                                   <<>>, TRUE))

\* path.dirname
RECURSIVE StripTrailingSeps(_)
StripTrailingSeps(p) ==
  IF Len(p) > 1 /\ p[Len(p)] = Sep THEN StripTrailingSeps(SubSeq(p, 1, Len(p) - 1)) ELSE p

RECURSIVE DropLastSegment(_)
DropLastSegment(p) ==
  IF p = <<>> THEN <<>>
  ELSE IF p[Len(p)] = Sep THEN p
  ELSE DropLastSegment(SubSeq(p, 1, Len(p) - 1))

pathDirname(p) ==
  LET head == DropLastSegment(StripTrailingSeps(p))
  IN IF head = <<>> THEN <<".">> ELSE StripTrailingSeps(head)

normalizePathForKey(targetPath, platform) ==
  LET normalized == pathResolve(<<pathNormalize(targetPath)>>)
  IN IF platform = "win32" THEN toLowerCase(normalized) ELSE normalized

\* variant: the root is compared as it is, without the separator after it
RootAsPrefix(normalizedRoot) == normalizedRoot

\* lines 930-932
RootWithSeparator(normalizedRoot) ==
  IF endsWith(normalizedRoot, <<Sep>>) THEN normalizedRoot
  ELSE normalizedRoot \o <<Sep>>

\* TRUE when assertPathWithinRoot returns, FALSE when it throws
assertPathWithinRoot(rootPath, targetPath, platform) ==
  LET normalizedRoot == normalizePathForKey(rootPath, platform)
      normalizedTarget == normalizePathForKey(targetPath, platform)
  IN \/ normalizedTarget = normalizedRoot
     \/ startsWith(normalizedTarget, RootWithSeparator(normalizedRoot))

NoPath == <<>>
PathResult(kind, p) == [kind |-> kind, path |-> p]

resolveSnapshotFileAbsolutePath(snapshotRoot, storageFolder, relativePath, platform) ==
  IF storageFolder = <<>> \/ Len(trim(storageFolder)) = 0
  THEN PathResult("missing storage mapping", NoPath)
  ELSE LET absolutePath == pathResolve(<<snapshotRoot, storageFolder, relativePath>>)
       IN IF assertPathWithinRoot(snapshotRoot, absolutePath, platform)
          THEN PathResult("path", absolutePath)
          ELSE PathResult("Snapshot file path resolves outside its allowed root.", NoPath)

\* line 452
destRootOf(location) ==
  IF location.type = "file" THEN pathDirname(location.path) ELSE location.path

\* what a manifest and a file row can hold
PathRoots == { <<"/", "r", "/", "s">>, <<"/", "r", "/", "S", "/">> }
StorageFolders ==
  { <<"f">>, <<".", ".">>, <<".", ".", "/", "s", "x">>, <<".", ".", "/", "s">>,
    <<"/", "e">>, <<" ">> }
RelativePaths ==
  { <<"a">>, <<".", ".", "/", "a">>, <<".", ".", "/", ".", ".", "/", "s", "x", "/", "a">>,
    <<"/", "e", "/", "a">>, <<".", ".", "/", "v", "x", "/", "a">>,
    <<"f", "/", ".", ".", "/", "a">> }
PathLocations ==
  { [type |-> "folder", path |-> <<"/", "g", "/", "v">>],
    [type |-> "file", path |-> <<"/", "g", "/", "v", "/", "a">>] }
PathInputs ==
  [platform : {"posix", "win32"}, op : {"verify", "restore"}, root : PathRoots,
   folder : StorageFolders, rel : RelativePaths, location : PathLocations]
NoPathInput ==
  [platform |-> "posix", op |-> "none", root |-> NoPath, folder |-> NoPath,
   rel |-> NoPath, location |-> [type |-> "folder", path |-> NoPath]]

PathLogStart ==
  [pc |-> "start", source |-> NoPath, dest |-> NoPath, reads |-> {}, writes |-> {},
   result |-> "none"]

\* verifySnapshot line 490-491 / restoreSnapshot lines 447-448: resolve the
\* source, then fs.existsSync
PathResolveSource ==
  /\ pathLog.pc = "start"
  /\ LET r == resolveSnapshotFileAbsolutePath(pathIn.root, pathIn.folder, pathIn.rel,
                                              pathIn.platform)
     IN IF r.kind # "path"
        THEN pathLog' = [pathLog EXCEPT !.pc = "done", !.result = r.kind]
        ELSE \E exists \in BOOLEAN :
               pathLog' = [pathLog EXCEPT
                             !.source = r.path,
                             !.reads = @ \cup {r.path},
                             !.pc = IF ~exists THEN "done"
                                    ELSE IF pathIn.op = "verify" THEN "hash" ELSE "dest",
                             !.result = IF exists THEN "none" ELSE "file missing"]
  /\ UNCHANGED <<pathIn, mainVars, ckVars, moreVars>>

\* verifySnapshot line 495: hashFile(absolutePath)
PathHash ==
  /\ pathLog.pc = "hash"
  /\ pathLog' = [pathLog EXCEPT !.reads = @ \cup {pathLog.source}, !.pc = "done",
                                !.result = "verified"]
  /\ UNCHANGED <<pathIn, mainVars, ckVars, moreVars>>

\* restoreSnapshot lines 452-454
PathResolveDest ==
  /\ pathLog.pc = "dest"
  /\ LET destRoot == destRootOf(pathIn.location)
         destPath == pathResolve(<<destRoot, pathIn.rel>>)
     IN IF assertPathWithinRoot(destRoot, destPath, pathIn.platform)
        THEN pathLog' = [pathLog EXCEPT !.dest = destPath, !.pc = "copy"]
        ELSE pathLog' = [pathLog EXCEPT !.pc = "done", !.result =
                           "Restore destination path resolves outside its allowed root."]
  /\ UNCHANGED <<pathIn, mainVars, ckVars, moreVars>>

\* restoreSnapshot line 455: copyFileWithRetries(sourcePath, destPath, 3)
PathCopy ==
  /\ pathLog.pc = "copy"
  /\ pathLog' = [pathLog EXCEPT !.reads = @ \cup {pathLog.source},
                                !.writes = @ \cup {pathLog.dest},
                                !.pc = "done", !.result = "restored"]
  /\ UNCHANGED <<pathIn, mainVars, ckVars, moreVars>>

\* --------------------------------------------------------------- checksums
\* the file rows a snapshot of two locations can have
ChecksumRows ==
  { [snapshot_id |-> 1, location_id |-> l, relative_path |-> rel,
     size_bytes |-> statSize(c), checksum |-> hashFile(c)] :
      l \in {"l1", "l2"}, rel \in {<<"a">>, <<"saves">>}, c \in {1} }

NoChecksum == [done |-> FALSE, value |-> hashText(<<>>)]

\* computeSnapshotChecksum(files) is called
ChecksumCompute ==
  /\ ckOut' = [done |-> TRUE, value |-> computeSnapshotChecksum(ckIn)]
  /\ UNCHANGED <<ckIn, mainVars, pathVars, moreVars>>

\* the same rows come in another order
ChecksumReorder ==
  /\ \E i \in 1..(Len(ckIn) - 1) :
       ckIn' = [ckIn EXCEPT ![i] = ckIn[i + 1], ![i + 1] = ckIn[i]]
  /\ UNCHANGED <<ckOut, mainVars, pathVars, moreVars>>

\* ---------------------------------------------------- scanSnapshotsFromDisk
\* metadata.json of a game folder as JSON.parse gives it
MetadataFields == {"id", "name", "install_path", "exe_path"}
GameMetadata(g) == [fields |-> MetadataFields, id |-> g]

\* the id of the game readGameMetadata recovers, "" for its null
readGameMetadata(folders, gameFolder) ==
  IF gameFolder \notin DOMAIN folders THEN ""
  ELSE IF MetadataFields \subseteq folders[gameFolder].fields
  THEN folders[gameFolder].id ELSE ""

\* the entries of a directory in the order readdir or walkFiles lists them
SeqOfSet(S) ==
  CHOOSE f \in [1..Cardinality(S) -> S] :
    \A i, j \in 1..Cardinality(S) : f[i] = f[j] => i = j

\* the Map of createManifestFolderMap as its set() calls in order
createManifestFolderMap(manifest) ==
  [i \in 1..(2 * Len(manifest.locations)) |->
     LET loc == manifest.locations[(i + 1) \div 2]
         storageFolder == trim(loc.storage_folder)
     IN IF i % 2 = 1 THEN <<storageFolder, loc.id>>
        ELSE <<toLowerCase(storageFolder), loc.id>>]

\* Map.get: the value of the last set() of the key, "" for undefined
FolderMapGet(folderMap, key) ==
  LET hits == SelectSeq(folderMap, LAMBDA kv : kv[1] = key)
  IN IF hits = <<>> THEN "" ELSE hits[Len(hits)][2]

resolveLocationIdFromFolder(locationFolder, folderMap) ==
  LET exact == FolderMapGet(folderMap, locationFolder)
  IN IF exact # "" THEN exact ELSE FolderMapGet(folderMap, toLowerCase(locationFolder))

\* uuid() until the id is none of existingSnapshotIds
RECURSIVE generateUnusedId(_, _)
generateUnusedId(existingSnapshotIds, uuid) ==
  IF uuid \in existingSnapshotIds THEN generateUnusedId(existingSnapshotIds, uuid + 1)
  ELSE uuid

\* variant: the id of the manifest is taken, free or not
createSnapshotIdFromManifest(preferredId, existingSnapshotIds, uuid) ==
  <<trimId(preferredId), uuid>>

\* <<the id of the scanned snapshot, the next uuid>>
createUniqueSnapshotId(preferredId, existingSnapshotIds, uuid) ==
  IF trimId(preferredId) # 0 /\ trimId(preferredId) \notin existingSnapshotIds
  THEN <<trimId(preferredId), uuid>>
  ELSE LET generated == generateUnusedId(existingSnapshotIds, uuid)
       IN <<generated, generated + 1>>

RECURSIVE SumSizes(_)
SumSizes(rows) == IF rows = <<>> THEN 0 ELSE Head(rows).size_bytes + SumSizes(Tail(rows))

\* the location ids of file rows, each once, in the order of first appearance
RECURSIVE LocationIdsOf(_)
LocationIdsOf(rows) ==
  IF rows = <<>> THEN <<>>
  ELSE LET before == LocationIdsOf(SubSeq(rows, 1, Len(rows) - 1))
           id == rows[Len(rows)].location_id
       IN IF id \in Range(before) THEN before ELSE Append(before, id)

buildLocationSeeds(gameId, files, manifest) ==
  LET ids == SelectSeq(LocationIdsOf(files),
                       LAMBDA id : \E i \in 1..Len(manifest.locations) :
                                     manifest.locations[i].id = id)
      entry(id) == LET hits == SelectSeq(manifest.locations, LAMBDA loc : loc.id = id)
                   IN hits[Len(hits)]
  IN [i \in 1..Len(ids) |->
        [id |-> ids[i], game_id |-> gameId, path |-> entry(ids[i]).path,
         type |-> entry(ids[i]).type, auto_detected |-> entry(ids[i]).auto_detected,
         enabled |-> entry(ids[i]).enabled]]

NotScanned == [ok |-> FALSE, snapshot |-> NoSnapshot, files |-> <<>>, seeds |-> <<>>, uuid |-> 0]

\* the files of a snapshot directory are listed under the folder names the
\* volume keeps (FsKey); the manifest file itself is passed over
scanSingleSnapshot(gameId, dirs, root, existingSnapshotIds, uuid) ==
  LET dir == dirs[root]
      manifest == readSnapshotManifest(dirs, root)
      filesOnDisk == SeqOfSet(DOMAIN dir.files)
      manifestFolderMap == createManifestFolderMap(manifest)
      picked == createUniqueSnapshotId(manifest.snapshot_id, existingSnapshotIds, uuid)
      rowOf(key) ==
        [snapshot_id |-> picked[1],
         location_id |-> resolveLocationIdFromFolder(key[1], manifestFolderMap),
         relative_path |-> key[2],
         size_bytes |-> statSize(dir.files[key]),
         checksum |-> hashFile(dir.files[key])]
      snapshotFilesFound ==
        SelectSeq([i \in 1..Len(filesOnDisk) |-> rowOf(filesOnDisk[i])],
                  LAMBDA row : row.location_id # "")
  IN IF DOMAIN dir.files = {} /\ dir.manifest = NoManifest THEN NotScanned
     ELSE IF manifest = NoManifest THEN NotScanned
     ELSE IF snapshotFilesFound = <<>> THEN NotScanned
     ELSE [ok |-> TRUE,
           snapshot |-> [id |-> picked[1], game_id |-> gameId,
                         created_at |-> manifest.created_at,
                         size_bytes |-> SumSizes(snapshotFilesFound),
                         checksum |-> computeSnapshotChecksum(snapshotFilesFound),
                         storage_path |-> root, reason |-> manifest.reason],
           files |-> snapshotFilesFound,
           seeds |-> buildLocationSeeds(gameId, snapshotFilesFound, manifest),
           uuid |-> picked[2]]

\* variant: a folder without a game row is not looked into
ScanGameIndexed(games, folders, gameFolder) ==
  IF gameFolder \in games THEN gameFolder ELSE ""

\* the game of a game folder: the row with this folder_name, else the game
\* its metadata.json gives, else "" (a game's folder_name is its id here)
ScanGame(games, folders, gameFolder) ==
  IF gameFolder \in games THEN gameFolder ELSE readGameMetadata(folders, gameFolder)

\* the loops over the game folders and their snapshot directories
RECURSIVE ScanRoots(_, _, _, _, _)
ScanRoots(games, folders, dirs, roots, acc) ==
  IF roots = <<>> THEN acc
  ELSE LET root == Head(roots)
           game == ScanGame(games, folders, root[1])
           scanned == scanSingleSnapshot(game, dirs, root, acc.ids, acc.uuid)
           next ==
             IF game = "" THEN [acc EXCEPT !.unknown = @ + 1]
             ELSE IF root \in acc.paths THEN acc
             ELSE IF ~scanned.ok THEN [acc EXCEPT !.invalid = @ + 1]
             ELSE [acc EXCEPT
                     !.snapshots = Append(@, scanned.snapshot),
                     !.files = @ \o scanned.files,
                     !.seeds = @ \o SelectSeq(scanned.seeds,
                                      LAMBDA seed : \A i \in 1..Len(acc.seeds) :
                                                      acc.seeds[i].id # seed.id),
                     !.ids = @ \cup {scanned.snapshot.id},
                     !.paths = @ \cup {root},
                     !.uuid = scanned.uuid]
       IN ScanRoots(games, folders, dirs, Tail(roots), next)

\* ------------------------------------------------------------------ actions
World(t) ==
  [st |-> status, log |-> eventLog, inf |-> inFlight, snaps |-> snapshots,
   files |-> snapshotFiles, dirs |-> snapDirs, disk |-> saveDisk,
   uuid |-> nextUuid, clk |-> clock, ops |-> opsStarted, flt |-> faults,
   locs |-> saveLocations, tk |-> tasks[t], rm |-> {}]

\* a settled call is seen by its caller in the state it settles in; afterwards
\* its task is free again
Reap(k) == IF k.pc = "done" THEN IdleTask ELSE k

\* history: a call between its commit and its return notes the rows of its
\* game that another call removes
Note(k, removed) ==
  IF k.committed /\ k.pc = "retention"
  THEN [k EXCEPT !.others = @ \cup {r.id : r \in {x \in Range(k.atCommit) : x.id \in removed}}]
  ELSE k

Commit(t, w) ==
  /\ status' = w.st
  /\ eventLog' = w.log
  /\ inFlight' = w.inf
  /\ snapshots' = w.snaps
  /\ snapshotFiles' = w.files
  /\ snapDirs' = w.dirs
  /\ saveDisk' = w.disk
  /\ nextUuid' = w.uuid
  /\ clock' = w.clk
  /\ opsStarted' = w.ops
  /\ faults' = w.flt
  /\ tasks' = [u \in Tasks |-> IF u = t THEN w.tk ELSE Note(Reap(tasks[u]), w.rm)]
  /\ saveLocations' = w.locs
  /\ UNCHANGED <<retentionCount, tampers, opsLimit, gameFolders,
                 lostIndex, pathVars, ckVars, moreVars>>

Free(t) == tasks[t].pc \in {"idle", "done"}

\* a request is served by the first free task
CanStart(t) ==
  /\ Free(t)
  /\ \A u \in Tasks : u < t => ~Free(u)
  /\ opsStarted < opsLimit

NewCall(t, op) ==
  [World(t) EXCEPT !.ops = @ + 1, !.tk = [IdleTask EXCEPT !.op = op]]

\* an await that rejects although it could have succeeded
Fault(w) == [w EXCEPT !.flt = @ + 1]
MayFail == faults < MaxFaults

\* new Date(): the clock moves on; a reading equal to the previous one is
\* told apart from a later one only by a snapshot of the same game made then
ClockReadings(gameId) ==
  {clock + 1} \cup
  (IF \E root \in DOMAIN snapDirs : root[1] = gameId /\ root[2] = clock
   THEN {clock} ELSE {})

\* backup:now: backupGame(db, settings, gameId, 'manual') up to its first await
BackupStart(t, gameId) ==
  /\ CanStart(t)
  /\ \E now \in ClockReadings(gameId) :
       Commit(t, BackupEnter([NewCall(t, "backup") EXCEPT !.clk = now],
                             gameId, "manual", FALSE))

\* `await listFilesForLocation(location)` resolves
BackupListFiles(t) ==
  LET w == World(t)
      k == w.tk
  IN /\ k.pc = "list"
     /\ LET files == listFilesForLocation(w.disk, k.locations[k.li])
        IN Commit(t, IF files = <<>> THEN BackupLoop([w EXCEPT !.tk.li = @ + 1])
                     ELSE [w EXCEPT !.tk.curFiles = files, !.tk.fi = 1,
                                    !.tk.pc = "copy"])

\* lines 362-378 for one file: copyFileWithRetries, stat and hashFile of the
\* copy, which no other call can see; `failure` is the await that rejects
BackupCopyFile(t) ==
  LET w == World(t)
      k == w.tk
  IN /\ k.pc = "copy"
     /\ LET loc == k.locations[k.li]
            rel == k.curFiles[k.fi]
            key == <<FsKey(k.folders[k.li]), rel>>
            srcExists == rel \in DOMAIN w.disk[loc.id].files
            copied == [w EXCEPT !.dirs = PutFile(@, k.snapshotRoot, key,
                                                 w.disk[loc.id].files[rel])]
        IN \E failure \in {"none", "copy", "stat", "hash"} :
             /\ ~srcExists => failure = "copy"
             /\ (srcExists /\ failure # "none") => MayFail
             /\ Commit(t,
                  CASE failure = "copy" ->
                         Catch(IF srcExists THEN Fault(w) ELSE w, "copy failed")
                    [] failure = "stat" -> Catch(Fault(copied), "stat failed")
                    [] failure = "hash" -> Catch(Fault(copied), "hash failed")
                    [] OTHER ->
                       LET content == copied.dirs[k.snapshotRoot].files[key]
                           row == [snapshot_id |-> k.snapshotId,
                                   location_id |-> loc.id,
                                   relative_path |-> rel,
                                   size_bytes |-> statSize(content),
                                   checksum |-> hashFile(content)]
                           w1 == [copied EXCEPT
                                    !.tk.snapshotFiles = Append(@, row),
                                    !.tk.totalSize = @ + statSize(content)]
                       IN IF k.fi < Len(k.curFiles)
                          THEN [w1 EXCEPT !.tk.fi = @ + 1]
                          ELSE BackupLoop([w1 EXCEPT !.tk.li = @ + 1]))

\* `await writeSnapshotManifest(...)` settles; on success the rows are
\* committed and retention starts
BackupWriteManifest(t) ==
  LET w == World(t)
      k == w.tk
  IN /\ k.pc = "manifest"
     /\ \E ok \in BOOLEAN :
          /\ ~ok => MayFail
          /\ Commit(t,
               IF ok
               THEN CommitSnapshot(
                      [w EXCEPT !.dirs =
                         (k.snapshotRoot :>
                            [ensureDir(w.dirs, k.snapshotRoot)[k.snapshotRoot] EXCEPT
                               !.manifest = ManifestPayload(k.snapshot, k.locations, k.folders)])
                         @@ w.dirs])
               ELSE Catch(Fault(w), "manifest write failed"))

\* fileOps.ts removeDirSafe may fail only on a directory that exists
RemoveMayFail(w, root) == root \in DOMAIN w.dirs /\ MayFail

\* retention: `await removeDirSafe(snapshot.storage_path)` of deleteSnapshot
BackupRetentionRemove(t) ==
  LET w == World(t)
      k == w.tk
  IN /\ k.pc = "retention"
     /\ \E ok \in BOOLEAN :
          /\ ~ok => RemoveMayFail(w, k.delTarget.storage_path)
          /\ Commit(t,
               IF ok
               THEN RetentionLoop(
                      [deleteSnapshotRows(removeDir(w, k.delTarget.storage_path),
                                          k.delTarget.id)
                         EXCEPT !.tk.toRemove = Tail(@)])
               ELSE Catch(Fault(w), "remove failed"))

\* zero files: `await removeDirSafe(snapshotRoot)` then return null
BackupRemoveEmpty(t) ==
  LET w == World(t)
      k == w.tk
  IN /\ k.pc = "removeEmpty"
     /\ \E ok \in BOOLEAN :
          /\ ~ok => RemoveMayFail(w, k.snapshotRoot)
          /\ Commit(t, IF ok THEN Finally(removeDir(w, k.snapshotRoot), NullResult)
                       ELSE Catch(Fault(w), "remove failed"))

\* catch: `await removeDirSafe(snapshotRoot)` then throw
BackupRollback(t) ==
  LET w == World(t)
      k == w.tk
  IN /\ k.pc = "rollback"
     /\ \E ok \in BOOLEAN :
          /\ ~ok => RemoveMayFail(w, k.snapshotRoot)
          /\ Commit(t, IF ok
                       THEN Finally(removeDir(w, k.snapshotRoot), ThrowResult(k.error))
                       ELSE Finally(Fault(w),
                              ThrowResult(RollbackError(k.error, "rollback failed"))))

\* snapshot:remove: deleteSnapshot up to its await
DeleteStart(t, snapshotId) ==
  /\ CanStart(t)
  /\ LET w == NewCall(t, "delete")
         row == FindSnapshot(w.snaps, snapshotId)
     IN Commit(t, IF row = NoSnapshot
                  THEN Settle(w, VoidResult)
                  ELSE [w EXCEPT !.tk.pc = "dremove", !.tk.delTarget = row,
                                 !.tk.gameId = row.game_id])

\* `await removeDirSafe(snapshot.storage_path)` of a user delete settles
DeleteRemove(t) ==
  LET w == World(t)
      k == w.tk
  IN /\ k.pc = "dremove"
     /\ \E ok \in BOOLEAN :
          /\ ~ok => RemoveMayFail(w, k.delTarget.storage_path)
          /\ Commit(t,
               IF ok
               THEN Settle(logEvent(deleteSnapshotRows(
                                      removeDir([w EXCEPT !.rm = {k.delTarget.id}],
                                                k.delTarget.storage_path),
                                      k.delTarget.id),
                                    k.delTarget.game_id, "backup", "Snapshot deleted.", ""),
                           VoidResult)
               ELSE Settle(Fault(w), ThrowResult("remove failed")))

\* restore:snapshot: restoreSnapshot up to `await readSnapshotManifest`
RestoreStart(t, snapshotId) ==
  /\ CanStart(t)
  /\ LET w == NewCall(t, "restore")
         row == FindSnapshot(w.snaps, snapshotId)
     IN Commit(t, IF row = NoSnapshot
                  THEN Settle(w, ThrowResult("Snapshot not found"))
                  ELSE [w EXCEPT !.tk.pc = "rmanifest", !.tk.rSnapshot = row,
                                 !.tk.gameId = row.game_id,
                                 !.tk.rLocations = listSaveLocations(w.locs, row.game_id),
                                 !.tk.rFiles = SelectSeq(w.files,
                                    LAMBDA f : f.snapshot_id = snapshotId)])

\* the manifest is read; then the pre-restore backupGame runs to its first await
RestoreReadManifest(t) ==
  LET w == World(t)
      k == w.tk
  IN /\ k.pc = "rmanifest"
     /\ LET manifest == readSnapshotManifest(w.dirs, k.rSnapshot.storage_path)
        IN IF manifest = NoManifest
           THEN Commit(t, Settle(w,
                             ThrowResult("Snapshot manifest is missing or invalid.")))
           ELSE \E now \in ClockReadings(k.gameId) :
                  Commit(t, BackupEnter([w EXCEPT !.clk = now,
                                                  !.tk.rManifest = manifest,
                                                  !.tk.safety = "pending"],
                                        k.gameId, "pre-restore", TRUE))

\* variant: the copy leaves nothing else in the destination folder
copyFileAlone(files, rel, content) == (rel :> content)

\* fileOps.ts copyFileWithRetries into a save location: the file at rel is
\* created or overwritten
copyFile(files, rel, content) == (rel :> content) @@ files

\* `await copyFileWithRetries(sourcePath, destPath, 3)` of restore settles
RestoreCopyFile(t) ==
  LET w == World(t)
      k == w.tk
  IN /\ k.pc = "rcopy"
     /\ LET file == k.rFiles[k.fi]
            folder == ManifestStorageFolder(k.rManifest, file.location_id)
            key == <<FsKey(folder), file.relative_path>>
            root == k.rSnapshot.storage_path
            srcExists == root \in DOMAIN w.dirs /\ key \in DOMAIN w.dirs[root].files
        IN \E ok \in BOOLEAN :
             /\ ok => srcExists
             /\ (~ok /\ srcExists) => MayFail
             /\ Commit(t,
                  IF ok
                  THEN RestoreLoop(
                         [w EXCEPT !.disk[file.location_id] =
                                     [present |-> TRUE,
                                      files |-> copyFile(@.files, file.relative_path,
                                                         w.dirs[root].files[key])],
                                   !.tk.written = @ + 1,
                                   !.tk.stray = @ + k.strayCopy,
                                   !.tk.fi = @ + 1])
                  ELSE Settle(IF srcExists THEN Fault(w) ELSE w,
                              ThrowResult("copy failed")))

\* saveLocationService.ts toggleSaveLocation: the row of the id gets the flag
toggleSaveLocation(locs, id, enabled) ==
  [i \in 1..Len(locs) |-> IF locs[i].id = id THEN [locs[i] EXCEPT !.enabled = enabled]
                          ELSE locs[i]]
\* saveLocationService.ts removeSaveLocation: the row of the id leaves the
\* index, the file rows of earlier snapshots stay
removeSaveLocation(locs, id) == SelectSeq(locs, LAMBDA loc : loc.id # id)

\* the rows a running restore holds in its locationMap, when these are the
\* objects of the index itself and the change of a flag shows through
SeenByRestores(ts, id, enabled) ==
  [u \in Tasks |-> [ts[u] EXCEPT !.rLocations = toggleSaveLocation(@, id, enabled)]]

\* savelocations:toggle: the flag is set; enabling a disabled location starts
\* backupGame(db, settings, game_id, 'auto'), which the handler does not await.
\* Whether a running restore sees a location go disabled depends on the rows
\* being shared objects, so both are possible.
ToggleSaveLocation(t, id, enabled) ==
  /\ opsStarted < opsLimit
  /\ LET hits == FindLocation(saveLocations, id)
         shouldTriggerBackup == hits # <<>> /\ ~hits[1].enabled /\ enabled
     IN IF shouldTriggerBackup
        THEN /\ CanStart(t)
             /\ \E now \in ClockReadings(hits[1].game_id) :
                  LET w == [NewCall(t, "auto") EXCEPT
                              !.clk = now,
                              !.locs = toggleSaveLocation(@, id, enabled)]
                  IN Commit(t, BackupEnter(w, hits[1].game_id, "auto", FALSE))
        ELSE /\ t = 1
             /\ saveLocations' = toggleSaveLocation(saveLocations, id, enabled)
             /\ opsStarted' = opsStarted + 1
             /\ \E shared \in BOOLEAN :
                  tasks' = IF shared THEN SeenByRestores(tasks, id, enabled) ELSE tasks
             /\ UNCHANGED <<status, snapshots, snapshotFiles, eventLog, inFlight,
                            retentionCount, saveDisk, snapDirs, nextUuid, clock,
                            faults, tampers, opsLimit, gameFolders, lostIndex,
                            pathVars, ckVars, moreVars>>

\* savelocations:remove
RemoveSaveLocation(id) ==
  /\ opsStarted < opsLimit
  /\ saveLocations' = removeSaveLocation(saveLocations, id)
  /\ opsStarted' = opsStarted + 1
  /\ UNCHANGED <<status, snapshots, snapshotFiles, eventLog, inFlight,
                 retentionCount, saveDisk, snapDirs, tasks, nextUuid, clock,
                 faults, tampers, opsLimit, gameFolders, lostIndex,
                 pathVars, ckVars, moreVars>>

\* snapshot:verify: verifySnapshot only reads, its awaits are folded into one step
VerifyRun(t, snapshotId) ==
  /\ Free(t)
  /\ \A u \in Tasks : u < t => ~Free(u)
  /\ LET w == [World(t) EXCEPT !.tk = [IdleTask EXCEPT !.op = "verify"]]
     IN Commit(t, Settle([w EXCEPT !.tk.snapshotId = snapshotId],
                         verifySnapshot(w.snaps, w.files, w.dirs, snapshotId)))

\* something outside the program deletes or rewrites a file of a snapshot directory
Tamper(root, key) ==
  /\ tampers < MaxTamper
  /\ \A t \in Tasks : Free(t)
  /\ root \in DOMAIN snapDirs
  /\ \E i \in 1..Len(snapshots) : snapshots[i].storage_path = root
  /\ key \in DOMAIN snapDirs[root].files
  /\ \E c \in Contents \cup {0} :
       /\ c # snapDirs[root].files[key]
       /\ snapDirs' = [snapDirs EXCEPT ![root].files =
                         IF c = 0 THEN DropKey(@, key) ELSE [@ EXCEPT ![key] = c]]
  /\ tampers' = tampers + 1
  /\ tasks' = [u \in Tasks |-> Reap(tasks[u])]
  /\ UNCHANGED <<status, saveLocations, snapshots, snapshotFiles, eventLog, inFlight,
                 retentionCount, saveDisk, nextUuid, clock, opsStarted, faults,
                 opsLimit, gameFolders, lostIndex, pathVars, ckVars, moreVars>>

\* the index is lost: the library starts again from an empty db file
LoseIndex ==
  /\ \A t \in Tasks : Free(t)
  /\ ~lostIndex.lost
  /\ snapshots # <<>>
  /\ lostIndex' = [lost |-> TRUE, snapshots |-> snapshots, snapshotFiles |-> snapshotFiles]
  /\ status' = [g \in {} |-> ""]
  /\ saveLocations' = <<>>
  /\ snapshots' = <<>>
  /\ snapshotFiles' = <<>>
  /\ eventLog' = [g \in Games |-> <<>>]
  /\ tasks' = [u \in Tasks |-> Reap(tasks[u])]
  /\ UNCHANGED <<inFlight, retentionCount, saveDisk, snapDirs, nextUuid, clock,
                 opsStarted, faults, tampers, opsLimit, gameFolders, pathVars, ckVars,
                 moreVars>>

\* variant: only the rows of the first game folder are looked at
staleSnapshotRowsOfFirstGame(rows, dirs) ==
  SelectSeq(rows, LAMBDA row : ~isDirectoryPath(dirs, row.storage_path)
                               /\ row.game_id = "g1")

\* lines 271-273: the rows whose storage_path is no directory, and their ids
staleSnapshotRows(rows, dirs) ==
  SelectSeq(rows, LAMBDA row : ~isDirectoryPath(dirs, row.storage_path))
staleSnapshotIds(rows, dirs) == {row.id : row \in Range(staleSnapshotRows(rows, dirs))}

\* scanSnapshotsFromDisk from its walk of the storage root to its return, with
\* the ids and storage paths it noted at its start (lines 181-184)
ScanWalk(t, existingSnapshotIds, existingSnapshotStoragePaths, ops) ==
  /\ LET acc == ScanRoots(DOMAIN status, gameFolders, snapDirs, SeqOfSet(DOMAIN snapDirs),
                          [ids |-> existingSnapshotIds,
                           paths |-> existingSnapshotStoragePaths,
                           snapshots |-> <<>>, files |-> <<>>, seeds |-> <<>>,
                           uuid |-> nextUuid, unknown |-> 0, invalid |-> 0])
         stale == staleSnapshotIds(snapshots, snapDirs)
         discoveredGames ==
           {ScanGame(DOMAIN status, gameFolders, root[1]) : root \in DOMAIN snapDirs}
             \ (DOMAIN status \cup {""})
     IN /\ snapshots' = SelectSeq(snapshots, LAMBDA r : r.id \notin stale) \o acc.snapshots
        /\ snapshotFiles' =
             SelectSeq(snapshotFiles, LAMBDA f : f.snapshot_id \notin stale) \o acc.files
        /\ status' = [g \in DOMAIN status \cup discoveredGames |->
                        IF g \in DOMAIN status THEN status[g] ELSE "warning"]
        /\ saveLocations' =
             saveLocations \o SelectSeq(acc.seeds,
                                LAMBDA seed : \A i \in 1..Len(saveLocations) :
                                                saveLocations[i].id # seed.id)
        /\ nextUuid' = acc.uuid
        /\ opsStarted' = ops
        /\ tasks' = [u \in Tasks |->
             IF u = t
             THEN [IdleTask EXCEPT
                     !.op = "scan", !.pc = "done",
                     !.result = [NoResult EXCEPT
                        !.kind = "scan",
                        !.scan = [added |-> Len(acc.snapshots),
                                  removed |-> Len(staleSnapshotRows(snapshots, snapDirs)),
                                  removedFiles |-> Cardinality(
                                     {i \in 1..Len(snapshotFiles) :
                                        snapshotFiles[i].snapshot_id \in stale}),
                                  unknown |-> acc.unknown, invalid |-> acc.invalid]]]
             ELSE Reap(tasks[u])]
  /\ UNCHANGED <<eventLog, inFlight, retentionCount, saveDisk, snapDirs, clock, faults,
                 tampers, opsLimit, gameFolders, lostIndex, pathVars, ckVars, moreVars>>

\* backup:scan: scanSnapshotsFromDisk, run while no other call is under way
ScanRun(t) ==
  /\ CanStart(t)
  /\ \A u \in Tasks : Free(u)
  /\ ScanWalk(t, {snapshots[i].id : i \in 1..Len(snapshots)},
              {snapshots[i].storage_path : i \in 1..Len(snapshots)}, opsStarted + 1)

\* backup:scan while other calls are under way: lines 179-201, up to
\* `await readDirectoryEntries(settings.storageRoot)`
ScanBegin(t) ==
  /\ CanStart(t)
  /\ Commit(t, [NewCall(t, "scan") EXCEPT
                  !.tk.pc = "scanning",
                  !.tk.seenIds = {snapshots[i].id : i \in 1..Len(snapshots)},
                  !.tk.seenPaths = {snapshots[i].storage_path : i \in 1..Len(snapshots)}])

\* the directories are read once the awaited listing arrives, and the index
\* is changed (lines 202-315)
ScanEnd(t) ==
  /\ tasks[t].pc = "scanning"
  /\ ScanWalk(t, tasks[t].seenIds, tasks[t].seenPaths, opsStarted)

\* ------------------------------------------------------------ specification
\* every game folder holds the metadata.json addGame wrote; the index is in place
NotLost == [lost |-> FALSE, snapshots |-> <<>>, snapshotFiles |-> <<>>]
FoldersIntact ==
  /\ gameFolders = [g \in Games |-> GameMetadata(g)]
  /\ lostIndex = NotLost

\* the parts of the state a run does not use stay as they are
PathsIdle == pathIn = NoPathInput /\ pathLog = PathLogStart
ChecksumIdle == ckIn = <<>> /\ ckOut = NoChecksum
NoRoundTrip == [pc |-> "idle"]
NoSettingsRun == [pc |-> "idle"]
RoundTripIdle == roundTrip = NoRoundTrip
SettingsIdle == settingsRun = NoSettingsRun
NoIpcRun == [pc |-> "idle"]
IpcIdle == ipcRun = NoIpcRun
NoDetectRun == [pc |-> "idle"]
DetectIdle == detectRun = NoDetectRun
NoCatalogRun == [pc |-> "idle"]
CatalogIdle == catalogRun = NoCatalogRun
NoFolderRun == [pc |-> "idle"]
FoldersIdle == folderRun = NoFolderRun
NoSplitRun == [pc |-> "idle"]
SplitIdle == splitRun = NoSplitRun
NoMainRun == [pc |-> "idle"]
MainIdle == mainRun = NoMainRun
NoGameRows == [pc |-> "idle"]
GameRowsIdle == gameRows = NoGameRows
NoApplyRun == [pc |-> "idle"]
ApplyIdle == applyRun = NoApplyRun
MoreIdle ==
  RoundTripIdle /\ SettingsIdle /\ IpcIdle /\ DetectIdle /\ CatalogIdle /\ FoldersIdle /\ SplitIdle /\ MainIdle /\ GameRowsIdle /\ ApplyIdle

LocationRow(l, type, enabled) ==
  [id |-> l, game_id |-> LocGame(l), path |-> LocPath(l), type |-> type,
   auto_detected |-> FALSE, enabled |-> enabled]

\* the save locations of g1 at start: <<l1 enabled, l1 holds a file, type of l2,
\* l2 enabled, l2 present, library holds a snapshot>>; g2 has one enabled
\* folder with one file
Scenarios ==
  { <<TRUE, TRUE, "folder", TRUE, TRUE, FALSE>>,
    <<TRUE, TRUE, "folder", TRUE, TRUE, TRUE>>,
    <<TRUE, TRUE, "file", TRUE, TRUE, TRUE>>,
    <<TRUE, TRUE, "folder", TRUE, FALSE, TRUE>>,
    <<TRUE, FALSE, "folder", FALSE, TRUE, TRUE>>,
    <<FALSE, TRUE, "folder", FALSE, TRUE, TRUE>> }

\* a library loaded with one snapshot of g1, taken at time 1 when l1 was its
\* only enabled location and held the file a
SeedLocations == <<LocationRow("l1", "folder", TRUE)>>
SeedFiles ==
  << [snapshot_id |-> 1, location_id |-> "l1", relative_path |-> <<"a">>,
      size_bytes |-> statSize(1), checksum |-> hashFile(1)] >>
SeedSnapshot ==
  [id |-> 1, game_id |-> "g1", created_at |-> 1, size_bytes |-> statSize(1),
   checksum |-> computeSnapshotChecksum(SeedFiles),
   storage_path |-> getSnapshotRoot("g1", formatSnapshotTimestamp(1), 1),
   reason |-> "manual"]
SeedDir ==
  [manifest |-> ManifestPayload(SeedSnapshot, SeedLocations,
                                buildLocationStorageFolders(SeedLocations)),
   files |-> (<<FsKey(<<"Saves">>), <<"a">>>> :> 1)]

\* the library of a scenario; doc is the manifest in the directory of the seed
Library(sc, doc) ==
       /\ saveLocations = << LocationRow("l1", "folder", sc[1]),
                             LocationRow("l2", sc[3], sc[4]),
                             LocationRow("l3", "folder", TRUE) >>
       /\ saveDisk = [l \in LocIds |->
            CASE l = "l1" -> [present |-> TRUE,
                              files |-> IF sc[2] THEN (<<"a">> :> 1) ELSE EmptyFiles]
              [] l = "l2" -> [present |-> sc[5],
                              files |-> IF ~sc[5] THEN EmptyFiles
                                        ELSE IF sc[3] = "file" THEN (<<"saves">> :> 2)
                                        ELSE (<<"a">> :> 2)]
              [] OTHER -> [present |-> TRUE, files |-> (<<"a">> :> 1)]]
       /\ snapshots = IF sc[6] THEN <<SeedSnapshot>> ELSE <<>>
       /\ snapshotFiles = IF sc[6] THEN SeedFiles ELSE <<>>
       /\ snapDirs = IF sc[6]
                     THEN (SeedSnapshot.storage_path :> [SeedDir EXCEPT !.manifest = doc])
                     ELSE [x \in {} |-> 0]
       /\ eventLog = [g \in Games |->
                        IF sc[6] /\ g = "g1"
                        THEN << [type |-> "backup", text |-> "Snapshot created",
                                 detail |-> "manual"] >>
                        ELSE <<>>]
       /\ nextUuid = IF sc[6] THEN 2 ELSE 1

Init ==
  /\ status = [g \in Games |-> "protected"]
  /\ \E sc \in Scenarios : Library(sc, SeedDir.manifest)
  /\ inFlight = {}
  /\ retentionCount \in 1..MaxRetention
  /\ tasks = [t \in Tasks |-> IdleTask]
  /\ clock = 1
  /\ opsStarted = 0
  /\ faults = 0
  /\ tampers = 0
  /\ opsLimit = MaxOps
  /\ FoldersIntact
  /\ PathsIdle /\ ChecksumIdle /\ MoreIdle

\* the ids a request can name: those of the index and one no row has
SnapshotIds == {snapshots[i].id : i \in 1..Len(snapshots)}
RequestSnapshotIds == SnapshotIds \cup {0}

Next ==
  \/ \E t \in Tasks, g \in RequestGameIds : BackupStart(t, g)
  \/ \E t \in Tasks : BackupListFiles(t)
  \/ \E t \in Tasks : BackupCopyFile(t)
  \/ \E t \in Tasks : BackupWriteManifest(t)
  \/ \E t \in Tasks : BackupRetentionRemove(t)
  \/ \E t \in Tasks : BackupRemoveEmpty(t)
  \/ \E t \in Tasks : BackupRollback(t)
  \/ \E t \in Tasks, s \in RequestSnapshotIds : DeleteStart(t, s)
  \/ \E t \in Tasks : DeleteRemove(t)
  \/ \E t \in Tasks, s \in RequestSnapshotIds : RestoreStart(t, s)
  \/ \E t \in Tasks : RestoreReadManifest(t)
  \/ \E t \in Tasks : RestoreCopyFile(t)
  \/ \E t \in Tasks, s \in RequestSnapshotIds : VerifyRun(t, s)
  \/ \E root \in DOMAIN snapDirs : \E key \in DOMAIN snapDirs[root].files : Tamper(root, key)

Spec == Init /\ [][Next]_vars

\* an idle service with an empty library
InitIdle ==
  /\ status = [g \in Games |-> "protected"]
  /\ saveLocations = <<>>
  /\ saveDisk = [l \in LocIds |-> [present |-> FALSE, files |-> EmptyFiles]]
  /\ snapshots = <<>>
  /\ snapshotFiles = <<>>
  /\ snapDirs = [x \in {} |-> 0]
  /\ eventLog = [g \in Games |-> <<>>]
  /\ nextUuid = 1
  /\ inFlight = {}
  /\ retentionCount = 1
  /\ tasks = [t \in Tasks |-> IdleTask]
  /\ clock = 1
  /\ opsStarted = 0
  /\ faults = 0
  /\ tampers = 0
  /\ opsLimit = MaxOps
  /\ FoldersIntact

\* one file row of a verify or a restore, with any manifest folder and any
\* relative path
InitPaths ==
  /\ InitIdle
  /\ pathIn \in PathInputs
  /\ pathLog = PathLogStart
  /\ ChecksumIdle /\ MoreIdle

NextPaths == PathResolveSource \/ PathHash \/ PathResolveDest \/ PathCopy

SpecPaths == InitPaths /\ [][NextPaths]_vars

\* what can be found in place of the manifest doc: no file, a file without
\* one of the fields, another version, a blank id, a blank date, a text that
\* is no date, an unknown reason
DamagedManifests(doc) ==
  {NoManifest}
  \cup {[doc EXCEPT !.fields = @ \ {f}] : f \in ManifestFields}
  \cup {[doc EXCEPT !.version = 1], [doc EXCEPT !.snapshot_id = 0],
        [doc EXCEPT !.created_at = 0], [doc EXCEPT !.created_at = -1],
        [doc EXCEPT !.reason = "scheduled"]}

\* a library whose snapshot has a sound or a damaged manifest
InitManifest ==
  /\ status = [g \in Games |-> "protected"]
  /\ \E sc \in {x \in Scenarios : x[6]} :
       \E doc \in {SeedDir.manifest} \cup DamagedManifests(SeedDir.manifest) :
         Library(sc, doc)
  /\ inFlight = {}
  /\ retentionCount \in 1..MaxRetention
  /\ tasks = [t \in Tasks |-> IdleTask]
  /\ clock = 1
  /\ opsStarted = 0
  /\ faults = 0
  /\ tampers = 0
  /\ opsLimit = MaxOps
  /\ FoldersIntact
  /\ PathsIdle /\ ChecksumIdle /\ MoreIdle

\* restore:snapshot and snapshot:verify requests
NextManifest ==
  \/ \E t \in Tasks, s \in RequestSnapshotIds : RestoreStart(t, s)
  \/ \E t \in Tasks : RestoreReadManifest(t)
  \/ \E t \in Tasks : BackupListFiles(t)
  \/ \E t \in Tasks : BackupCopyFile(t)
  \/ \E t \in Tasks : BackupWriteManifest(t)
  \/ \E t \in Tasks : BackupRemoveEmpty(t)
  \/ \E t \in Tasks : BackupRollback(t)
  \/ \E t \in Tasks : RestoreCopyFile(t)
  \/ \E t \in Tasks, s \in RequestSnapshotIds : VerifyRun(t, s)

SpecManifest == InitManifest /\ [][NextManifest]_vars

\* a library of which the game folder of g2 may have lost its metadata.json
\* or hold one without exe_path
InitScan ==
  /\ status = [g \in Games |-> "protected"]
  /\ \E sc \in Scenarios : Library(sc, SeedDir.manifest)
  /\ inFlight = {}
  /\ retentionCount \in 1..MaxRetention
  /\ tasks = [t \in Tasks |-> IdleTask]
  /\ clock = 1
  /\ opsStarted = 0
  /\ faults = 0
  /\ tampers = 0
  /\ opsLimit = MaxOps + 1
  /\ \E meta \in {GameMetadata("g2"), [GameMetadata("g2") EXCEPT !.fields = {}],
                   [GameMetadata("g2") EXCEPT !.fields = @ \ {"exe_path"}]} :
       gameFolders = [g \in Games |-> IF g = "g2" THEN meta ELSE GameMetadata(g)]
  /\ lostIndex = NotLost
  /\ PathsIdle /\ ChecksumIdle /\ MoreIdle

\* backups, the loss of the index, scans
NextScan ==
  \/ \E t \in Tasks, g \in RequestGameIds : BackupStart(t, g)
  \/ \E t \in Tasks : BackupListFiles(t)
  \/ \E t \in Tasks : BackupCopyFile(t)
  \/ \E t \in Tasks : BackupWriteManifest(t)
  \/ \E t \in Tasks : BackupRetentionRemove(t)
  \/ \E t \in Tasks : BackupRemoveEmpty(t)
  \/ \E t \in Tasks : BackupRollback(t)
  \/ LoseIndex
  \/ \E t \in Tasks : ScanRun(t)

SpecScan == InitScan /\ [][NextScan]_vars

\* scans of a storage root whose snapshot directories of g1 carry manifests
\* with ids that are equal, padded, or already in the index
ScanManifestIds == {1, 2, -2, 3}
ScanIdRoots ==
  <<getSnapshotRoot("g1", formatSnapshotTimestamp(1), 1),
    getSnapshotRoot("g1", formatSnapshotTimestamp(2), 1),
    getSnapshotRoot("g1", formatSnapshotTimestamp(3), 1)>>
InitScanIds ==
  /\ status = [g \in Games |-> "protected"]
  /\ saveLocations = SeedLocations
  /\ saveDisk = [l \in LocIds |-> [present |-> FALSE, files |-> EmptyFiles]]
  /\ \E ids \in [1..3 -> ScanManifestIds], indexed \in BOOLEAN, uuid \in 2..3 :
       /\ indexed => ids[1] = SeedSnapshot.id
       /\ snapDirs = [root \in Range(ScanIdRoots) |->
                        LET i == CHOOSE n \in 1..3 : ScanIdRoots[n] = root
                        IN [SeedDir EXCEPT !.manifest.snapshot_id = ids[i],
                                           !.manifest.created_at = i]]
       /\ snapshots = IF indexed THEN <<SeedSnapshot>> ELSE <<>>
       /\ snapshotFiles = IF indexed THEN SeedFiles ELSE <<>>
       /\ nextUuid = uuid
  /\ eventLog = [g \in Games |-> <<>>]
  /\ inFlight = {}
  /\ retentionCount = 1
  /\ tasks = [t \in Tasks |-> IdleTask]
  /\ clock = 4
  /\ opsStarted = 0
  /\ faults = 0
  /\ tampers = 0
  /\ opsLimit = MaxOps
  /\ FoldersIntact
  /\ PathsIdle /\ ChecksumIdle /\ MoreIdle

NextScanIds == \E t \in Tasks : ScanRun(t)

SpecScanIds == InitScanIds /\ [][NextScanIds]_vars

\* ------------------------------ scanSnapshotsFromDisk: the games of the folders
\* scans, one after the other with the disk left alone, of a storage root with
\* the folder `g1` and a second folder `Folder`; a folder may carry the
\* metadata.json of g1, that of g2, or none, and one snapshot directory, with
\* or without its manifest. db.state.games holds g1 under one of the two names.
MaxScans == 2
ScanFolderNames == {"g1", "Folder"}

\* lines 185-187: the Map keyed by the lower-cased folder_name, the later row
\* of a key taking it
gamesByFolder(rows) ==
  [key \in {LowerToken(rows[i].folder_name) : i \in 1..Len(rows)} |->
     LET hits == SelectSeq(rows, LAMBDA row : LowerToken(row.folder_name) = key)
     IN hits[Len(hits)].id]

\* lines 212-232 for one game folder: the game with this folder_name, else the
\* game its metadata.json names, whose folder_name becomes the name of this
\* folder; acc.game is `game` of each folder, "" for undefined
linkGameFolder(acc, folders, gameFolder) ==
  LET key == LowerToken(gameFolder)
      recovered == readGameMetadata(folders, gameFolder)
      known == {acc.rows[i].id : i \in 1..Len(acc.rows)}
      existingById == CHOOSE row \in Range(acc.rows) : row.id = recovered
  IN IF key \in DOMAIN acc.byFolder
     THEN [acc EXCEPT !.game = (gameFolder :> acc.byFolder[key]) @@ @]
     ELSE IF recovered = "" THEN [acc EXCEPT !.game = (gameFolder :> "") @@ @]
     ELSE IF recovered \in known
     THEN [acc EXCEPT
             !.rows = [i \in 1..Len(acc.rows) |->
                         IF acc.rows[i].id = recovered
                         THEN [acc.rows[i] EXCEPT !.folder_name = gameFolder]
                         ELSE acc.rows[i]],
             !.updated = IF existingById.folder_name # gameFolder THEN @ + 1 ELSE @,
             !.byFolder = (key :> recovered) @@ @,
             !.game = (gameFolder :> recovered) @@ @]
     ELSE [acc EXCEPT
             !.rows = Append(@, [id |-> recovered, folder_name |-> gameFolder]),
             !.discovered = @ \cup {recovered},
             !.byFolder = (key :> recovered) @@ @,
             !.game = (gameFolder :> recovered) @@ @]

\* the loop of line 203 over the game folders as readdir lists them
RECURSIVE linkGameFolders(_, _, _)
linkGameFolders(acc, folders, names) ==
  IF names = <<>> THEN acc
  ELSE linkGameFolders(linkGameFolder(acc, folders, Head(names)), folders, Tail(names))

\* scanSnapshotsFromDisk on an idle service, from line 179 to its return
Rescan ==
  /\ gameRows.pc = "ready"
  /\ gameRows.scans < MaxScans
  /\ LET linked == linkGameFolders([rows |-> gameRows.rows,
                                    byFolder |-> gamesByFolder(gameRows.rows),
                                    game |-> [f \in {} |-> ""],
                                    updated |-> 0, discovered |-> {}],
                                   gameFolders, SeqOfSet(DOMAIN gameFolders))
         \* each folder with the game the loop has given it
         gameOf == [f \in DOMAIN gameFolders |-> GameMetadata(linked.game[f])]
         acc == ScanRoots({}, gameOf, snapDirs, SeqOfSet(DOMAIN snapDirs),
                          [ids |-> {snapshots[i].id : i \in 1..Len(snapshots)},
                           paths |-> {snapshots[i].storage_path : i \in 1..Len(snapshots)},
                           snapshots |-> <<>>, files |-> <<>>, seeds |-> <<>>,
                           uuid |-> nextUuid, unknown |-> 0, invalid |-> 0])
         stale == staleSnapshotIds(snapshots, snapDirs)
     IN /\ snapshots' = SelectSeq(snapshots, LAMBDA r : r.id \notin stale) \o acc.snapshots
        /\ snapshotFiles' =
             SelectSeq(snapshotFiles, LAMBDA f : f.snapshot_id \notin stale) \o acc.files
        /\ status' = [g \in DOMAIN status \cup linked.discovered |->
                        IF g \in DOMAIN status THEN status[g] ELSE "warning"]
        /\ saveLocations' =
             saveLocations \o SelectSeq(acc.seeds,
                                LAMBDA seed : \A i \in 1..Len(saveLocations) :
                                                saveLocations[i].id # seed.id)
        /\ nextUuid' = acc.uuid
        /\ gameRows' =
             [gameRows EXCEPT
                !.rows = linked.rows,
                !.scans = @ + 1,
                !.result = [added |-> Len(acc.snapshots),
                            removed |-> Len(staleSnapshotRows(snapshots, snapDirs)),
                            removedFiles |-> Cardinality(
                               {i \in 1..Len(snapshotFiles) :
                                  snapshotFiles[i].snapshot_id \in stale}),
                            unknown |-> acc.unknown, invalid |-> acc.invalid],
                !.persisted = \/ stale # {}
                              \/ linked.updated > 0
                              \/ linked.discovered # {}
                              \/ acc.seeds # <<>>
                              \/ acc.snapshots # <<>>]
  /\ UNCHANGED <<eventLog, inFlight, retentionCount, saveDisk, snapDirs, tasks, clock,
                 opsStarted, faults, tampers, opsLimit, gameFolders, lostIndex,
                 pathVars, ckVars, roundTrip, settingsRun, ipcRun, detectRun,
                 catalogRun, folderRun, splitRun, mainRun, applyRun>>

ScanFolderMetadata ==
  {GameMetadata("g1"), GameMetadata("g2"), [GameMetadata("g1") EXCEPT !.fields = {}]}
ScanFolderDirs == {SeedDir, [SeedDir EXCEPT !.manifest = NoManifest]}
InitRescan ==
  /\ status = [g \in {"g1"} |-> "protected"]
  /\ saveLocations = SeedLocations
  /\ saveDisk = [l \in LocIds |-> [present |-> FALSE, files |-> EmptyFiles]]
  /\ \E present \in (SUBSET ScanFolderNames) \ {{}} :
       /\ gameFolders \in [present -> ScanFolderMetadata]
       /\ \E filled \in SUBSET present :
            snapDirs \in [{getSnapshotRoot(f, formatSnapshotTimestamp(1), 1) : f \in filled}
                            -> ScanFolderDirs]
  /\ \E indexedAt \in ScanFolderNames \cup {""} :
       /\ snapshots = IF indexedAt = "" THEN <<>>
                      ELSE <<[SeedSnapshot EXCEPT
                                !.storage_path =
                                   getSnapshotRoot(indexedAt, formatSnapshotTimestamp(1), 1)]>>
       /\ snapshotFiles = IF indexedAt = "" THEN <<>> ELSE SeedFiles
  /\ nextUuid = 2
  /\ eventLog = [g \in Games |-> <<>>]
  /\ inFlight = {}
  /\ retentionCount = 1
  /\ tasks = [t \in Tasks |-> IdleTask]
  /\ clock = 2
  /\ opsStarted = 0
  /\ faults = 0
  /\ tampers = 0
  /\ opsLimit = MaxOps
  /\ lostIndex = NotLost
  /\ PathsIdle /\ ChecksumIdle
  /\ RoundTripIdle /\ SettingsIdle /\ IpcIdle /\ DetectIdle /\ CatalogIdle /\ FoldersIdle
  /\ SplitIdle /\ MainIdle /\ ApplyIdle
  /\ \E name \in ScanFolderNames :
       gameRows = [pc |-> "ready", rows |-> <<[id |-> "g1", folder_name |-> name]>>,
                   scans |-> 0, result |-> NoScan, persisted |-> FALSE]

NextRescan == Rescan

SpecRescan == InitRescan /\ [][NextRescan]_vars

\* backups, and scans that wait for the disk while backups go on; no await
\* rejects
InitScanRace ==
  /\ status = [g \in Games |-> "protected"]
  /\ \E sc \in Scenarios : Library(sc, SeedDir.manifest)
  /\ inFlight = {}
  /\ retentionCount \in 1..MaxRetention
  /\ tasks = [t \in Tasks |-> IdleTask]
  /\ clock = 1
  /\ opsStarted = 0
  /\ faults = MaxFaults
  /\ tampers = 0
  /\ opsLimit = MaxOps + 1
  /\ FoldersIntact
  /\ PathsIdle /\ ChecksumIdle /\ MoreIdle

NextScanRace ==
  \/ \E t \in Tasks, g \in RequestGameIds : BackupStart(t, g)
  \/ \E t \in Tasks : BackupListFiles(t)
  \/ \E t \in Tasks : BackupCopyFile(t)
  \/ \E t \in Tasks : BackupWriteManifest(t)
  \/ \E t \in Tasks : BackupRetentionRemove(t)
  \/ \E t \in Tasks : BackupRemoveEmpty(t)
  \/ \E t \in Tasks : ScanBegin(t)
  \/ \E t \in Tasks : ScanEnd(t)

SpecScanRace == InitScanRace /\ [][NextScanRace]_vars

\* restores that wait for the disk while deletes and backups go on; no await
\* rejects and nothing but the service touches the snapshot directories
NextRestoreRace ==
  \/ \E t \in Tasks, g \in RequestGameIds : BackupStart(t, g)
  \/ \E t \in Tasks : BackupListFiles(t)
  \/ \E t \in Tasks : BackupCopyFile(t)
  \/ \E t \in Tasks : BackupWriteManifest(t)
  \/ \E t \in Tasks : BackupRetentionRemove(t)
  \/ \E t \in Tasks : BackupRemoveEmpty(t)
  \/ \E t \in Tasks, s \in RequestSnapshotIds : DeleteStart(t, s)
  \/ \E t \in Tasks : DeleteRemove(t)
  \/ \E t \in Tasks, s \in RequestSnapshotIds : RestoreStart(t, s)
  \/ \E t \in Tasks : RestoreReadManifest(t)
  \/ \E t \in Tasks : RestoreCopyFile(t)

SpecRestoreRace == InitScanRace /\ [][NextRestoreRace]_vars

\* a game with two enabled, present save locations and no snapshot yet: l1 a
\* folder of one or two files, l2 a folder or a single file
InitCycle ==
  /\ status = [g \in Games |-> "protected"]
  /\ \E type \in {"folder", "file"}, two \in BOOLEAN :
       /\ saveLocations = << LocationRow("l1", "folder", TRUE),
                             LocationRow("l2", type, TRUE),
                             LocationRow("l3", "folder", TRUE) >>
       /\ saveDisk = [l \in LocIds |->
            CASE l = "l1" -> [present |-> TRUE,
                              files |-> IF two THEN (<<"a">> :> 1) @@ (<<"saves">> :> 2)
                                        ELSE (<<"a">> :> 1)]
              [] l = "l2" -> [present |-> TRUE,
                              files |-> IF type = "file" THEN (<<"saves">> :> 2)
                                        ELSE (<<"a">> :> 2)]
              [] OTHER -> [present |-> TRUE, files |-> (<<"a">> :> 1)]]
  /\ snapshots = <<>>
  /\ snapshotFiles = <<>>
  /\ snapDirs = [x \in {} |-> 0]
  /\ eventLog = [g \in Games |-> <<>>]
  /\ nextUuid = 1
  /\ inFlight = {}
  /\ retentionCount \in {1, MaxRetention + 2}
  /\ tasks = [t \in Tasks |-> IdleTask]
  /\ clock = 1
  /\ opsStarted = 0
  /\ faults = 0
  /\ tampers = 0
  /\ opsLimit = MaxOps + 1
  /\ FoldersIntact
  /\ PathsIdle /\ ChecksumIdle /\ MoreIdle

\* one request after the other: a backup of g1, a restore, a backup of g1
CycleBackup(t) ==
  /\ \A u \in Tasks : Free(u)
  /\ opsStarted # 1
  /\ BackupStart(t, "g1")

CycleRestore(t, snapshotId) ==
  /\ \A u \in Tasks : Free(u)
  /\ opsStarted = 1
  /\ RestoreStart(t, snapshotId)

NextCycle ==
  \/ \E t \in Tasks : CycleBackup(t)
  \/ \E t \in Tasks, s \in RequestSnapshotIds : CycleRestore(t, s)
  \/ \E t \in Tasks : BackupListFiles(t)
  \/ \E t \in Tasks : BackupCopyFile(t)
  \/ \E t \in Tasks : BackupWriteManifest(t)
  \/ \E t \in Tasks : BackupRetentionRemove(t)
  \/ \E t \in Tasks : BackupRollback(t)
  \/ \E t \in Tasks : RestoreReadManifest(t)
  \/ \E t \in Tasks : RestoreCopyFile(t)

SpecCycle == InitCycle /\ [][NextCycle]_vars

\* the lists of up to MaxRows distinct file rows
RowLists ==
  {rows \in UNION {[1..n -> ChecksumRows] : n \in 0..MaxRows} :
     \A i \in DOMAIN rows, j \in DOMAIN rows : rows[i] = rows[j] => i = j}

InitChecksum ==
  /\ InitIdle
  /\ PathsIdle /\ MoreIdle
  /\ ckIn \in RowLists
  /\ ckOut = NoChecksum

NextChecksum == ChecksumCompute \/ ChecksumReorder

SpecChecksum == InitChecksum /\ [][NextChecksum]_vars

\* restoreSnapshot of the seed snapshot while the save locations of its game
\* are toggled and removed
InitToggle ==
  /\ status = [g \in Games |-> "protected"]
  /\ \E sc \in Scenarios : sc[6] /\ Library(sc, SeedDir.manifest)
  /\ inFlight = {}
  /\ retentionCount = 1
  /\ tasks = [t \in Tasks |-> IdleTask]
  /\ clock = 1
  /\ opsStarted = 0
  /\ faults = 0
  /\ tampers = 0
  /\ opsLimit = MaxOps + 1
  /\ FoldersIntact
  /\ PathsIdle /\ ChecksumIdle /\ MoreIdle

GameLocIds(g) == {l \in LocIds : LocGame(l) = g}

NextToggle ==
  \/ \E t \in Tasks : RestoreStart(t, SeedSnapshot.id)
  \/ \E t \in Tasks : RestoreReadManifest(t)
  \/ \E t \in Tasks : RestoreCopyFile(t)
  \/ \E t \in Tasks : BackupListFiles(t)
  \/ \E t \in Tasks : BackupCopyFile(t)
  \/ \E t \in Tasks : BackupWriteManifest(t)
  \/ \E t \in Tasks : BackupRetentionRemove(t)
  \/ \E t \in Tasks : BackupRemoveEmpty(t)
  \/ \E t \in Tasks : BackupRollback(t)
  \/ \E t \in Tasks, l \in GameLocIds(SeedSnapshot.game_id), enabled \in BOOLEAN :
       ToggleSaveLocation(t, l, enabled)
  \/ \E l \in GameLocIds(SeedSnapshot.game_id) : RemoveSaveLocation(l)

SpecToggle == InitToggle /\ [][NextToggle]_vars

\* ------------------------------------------- a manifest written and read
\* writeSnapshotManifest as backupGame calls it, then readSnapshotManifest of
\* the same directory. The snapshot has a uuid and the ISO text of an instant;
\* the locations are enabled rows of one game whose paths end in names with
\* blanks, reserved characters, a trailing separator, or names that differ
\* only in case.
RoundTripPaths ==
  { <<"d1", "/", "Saves">>,
    <<"d2", "/", "saves">>,
    <<"d1", "/", " ", "Saves">>,
    <<"d1", "/", "Sa", " ", " ", "ves", "?">>,
    <<"d1", "/", ":">>,
    <<"d1", "/", "Saves", "/">> }
RoundTripRows(l) ==
  { [id |-> l, game_id |-> "g1", path |-> p, type |-> type,
     auto_detected |-> auto, enabled |-> TRUE]
      : p \in RoundTripPaths, type \in {"file", "folder"}, auto \in BOOLEAN }
RoundTripLocations ==
  {<<first>> : first \in RoundTripRows("l1")}
  \cup {<<first, second>> : first \in RoundTripRows("l1"), second \in RoundTripRows("l2")}
RoundTripRoot == getSnapshotRoot("g1", formatSnapshotTimestamp(1), 1)

InitRoundTrip ==
  /\ InitIdle
  /\ PathsIdle /\ ChecksumIdle /\ SettingsIdle /\ IpcIdle /\ DetectIdle /\ CatalogIdle /\ FoldersIdle /\ SplitIdle /\ MainIdle /\ GameRowsIdle /\ ApplyIdle
  /\ \E id \in 1..2, createdAt \in 1..2, reason \in {"auto", "manual", "pre-restore"},
        locations \in RoundTripLocations :
       roundTrip = [pc |-> "start",
                    snapshot |-> [NoSnapshot EXCEPT
                                    !.id = id, !.game_id = "g1",
                                    !.created_at = createdAt, !.reason = reason,
                                    !.storage_path = RoundTripRoot],
                    locations |-> locations,
                    written |-> NoManifest, read |-> NoManifest]

\* backupGame line 399
RoundTripWrite ==
  /\ roundTrip.pc = "start"
  /\ roundTrip' =
       [roundTrip EXCEPT
          !.pc = "written",
          !.written = ManifestPayload(roundTrip.snapshot, roundTrip.locations,
                                      buildLocationStorageFolders(roundTrip.locations))]
  /\ UNCHANGED <<mainVars, pathVars, ckVars, settingsRun, ipcRun, detectRun, catalogRun, folderRun, splitRun, mainRun, gameRows, applyRun>>

RoundTripRead ==
  /\ roundTrip.pc = "written"
  /\ roundTrip' =
       [roundTrip EXCEPT
          !.pc = "read",
          !.read = readSnapshotManifest(
                     (RoundTripRoot :> [manifest |-> roundTrip.written,
                                        files |-> EmptyFiles]),
                     RoundTripRoot)]
  /\ UNCHANGED <<mainVars, pathVars, ckVars, settingsRun, ipcRun, detectRun, catalogRun, folderRun, splitRun, mainRun, gameRows, applyRun>>

NextRoundTrip == RoundTripWrite \/ RoundTripRead

SpecRoundTrip == InitRoundTrip /\ [][NextRoundTrip]_vars

\* ------------------------------------------------------- settingsService
\* updateSettings, moveDirectory and saveSettings, one action per await. The
\* storage roots are absolute paths (path.resolve leaves them as they are); a
\* root on disk is a directory that may be absent and holds a set of files.
MaxUpdates == 2
DataRoots == {"D1", "D2"}
getDefaultStorageRootForDataRoot(dataRoot) == <<dataRoot, "Backups">>
CustomRoot == <<"X">>
StorageRoots == {getDefaultStorageRootForDataRoot(d) : d \in DataRoots} \cup {CustomRoot}
StorageFileNames == {"seed.dat", "g1"}
AbsentRoot == [present |-> FALSE, files |-> {}]
MigrateError == "Failed to migrate storage root"
FsError == "fs error"

\* Partial<Settings>: "" and <<>> stand for a key that is absent or empty
Partials ==
  [storageRoot : {<<>>, CustomRoot, getDefaultStorageRootForDataRoot("D1")},
   dataRoot : {"", "D2"}]

nextDataRoot(current, partial) ==
  IF partial.dataRoot # "" THEN partial.dataRoot ELSE current.dataRoot
nextStorageRoot(current, partial) ==
  IF partial.storageRoot # <<>> THEN partial.storageRoot
  ELSE IF partial.dataRoot # ""
       THEN getDefaultStorageRootForDataRoot(nextDataRoot(current, partial))
       ELSE current.storageRoot
NextSettings(current, partial) ==
  [dataRoot |-> nextDataRoot(current, partial),
   storageRoot |-> nextStorageRoot(current, partial)]

\* the call returns or throws: the position goes back to idle
SettingsReturn(run, result) == [run EXCEPT !.pc = "idle", !.result = result]
\* saveSettings up to its first await: cachedSettings = settings
saveSettingsEnter(run) == [run EXCEPT !.pc = "saveMkdirData", !.cached = run.next]
\* fs.promises.mkdir(dir, { recursive: true })
mkdirRecursive(roots, dir) == [roots EXCEPT ![dir].present = TRUE]

UpdateSettings ==
  /\ settingsRun.pc = "idle"
  /\ settingsRun.updates < MaxUpdates
  /\ \E partial \in Partials :
       LET current == settingsRun.cached
           next == NextSettings(current, partial)
           run == [settingsRun EXCEPT
                     !.updates = @ + 1, !.next = next, !.result = "none",
                     !.source = current.storageRoot,
                     !.destination = next.storageRoot,
                     !.before = [cached |-> settingsRun.cached,
                                 persisted |-> settingsRun.persisted,
                                 files |-> settingsRun.roots[current.storageRoot].files],
                     !.failedAt = "none"]
       IN settingsRun' =
            IF next.storageRoot # current.storageRoot
            THEN IF ~settingsRun.roots[current.storageRoot].present
                 THEN [run EXCEPT !.pc = "mkdirOnly"]
                 ELSE [run EXCEPT !.pc = "rename"]
            ELSE saveSettingsEnter(run)
  /\ UNCHANGED <<mainVars, pathVars, ckVars, roundTrip, ipcRun, detectRun, catalogRun, folderRun, splitRun, mainRun, gameRows, applyRun>>

\* moveDirectory, the source does not exist: mkdir(destination) and return
MoveMkdirOnly ==
  /\ settingsRun.pc = "mkdirOnly"
  /\ \/ settingsRun' = saveSettingsEnter(
            [settingsRun EXCEPT !.roots = mkdirRecursive(@, settingsRun.destination)])
     \/ settingsRun' = SettingsReturn(settingsRun, FsError)
  /\ UNCHANGED <<mainVars, pathVars, ckVars, roundTrip, ipcRun, detectRun, catalogRun, folderRun, splitRun, mainRun, gameRows, applyRun>>

\* mkdir(dirname(destination)) and rename(source, destination); a rename onto a
\* directory that holds files fails, and any rename may fail (another device)
MoveRename ==
  /\ settingsRun.pc = "rename"
  /\ LET src == settingsRun.source
         dst == settingsRun.destination
     IN \/ /\ settingsRun.roots[dst].files = {}
           /\ settingsRun' = saveSettingsEnter(
                [settingsRun EXCEPT !.roots = [@ EXCEPT ![dst] = settingsRun.roots[src],
                                                        ![src] = AbsentRoot]])
        \/ settingsRun' = [settingsRun EXCEPT !.pc = "mkdirDestination"]
  /\ UNCHANGED <<mainVars, pathVars, ckVars, roundTrip, ipcRun, detectRun, catalogRun, folderRun, splitRun, mainRun, gameRows, applyRun>>

\* the fallback's mkdir(destination), outside the try block
MoveMkdirDestination ==
  /\ settingsRun.pc = "mkdirDestination"
  /\ \/ settingsRun' = [settingsRun EXCEPT
                          !.pc = "cp", !.roots = mkdirRecursive(@, settingsRun.destination)]
     \/ settingsRun' = SettingsReturn(settingsRun, FsError)
  /\ UNCHANGED <<mainVars, pathVars, ckVars, roundTrip, ipcRun, detectRun, catalogRun, folderRun, splitRun, mainRun, gameRows, applyRun>>

\* fs.promises.cp(source, destination, { recursive: true }) copies the files one
\* after another: it resolves when all are copied, and rejects after any part
cpRecursive(roots, src, dst, copied) ==
  [roots EXCEPT ![dst].files = @ \cup copied]
MoveCopy ==
  /\ settingsRun.pc = "cp"
  /\ LET src == settingsRun.source
         dst == settingsRun.destination
     IN \E copied \in SUBSET settingsRun.roots[src].files :
          LET run == [settingsRun EXCEPT !.roots = cpRecursive(@, src, dst, copied)]
          IN \/ /\ copied = settingsRun.roots[src].files
                /\ settingsRun' = [run EXCEPT !.pc = "rm"]
             \/ settingsRun' = SettingsReturn([run EXCEPT !.failedAt = "cp"], MigrateError)
  /\ UNCHANGED <<mainVars, pathVars, ckVars, roundTrip, ipcRun, detectRun, catalogRun, folderRun, splitRun, mainRun, gameRows, applyRun>>

\* fs.promises.rm(source, { recursive: true, force: true }) removes the entries
\* one after another and the directory last: it rejects at the first entry it
\* cannot remove, the entries removed before stay removed
rmEntries(roots, src, removed) == [roots EXCEPT ![src].files = @ \ removed]
rmRecursive(roots, src) == [roots EXCEPT ![src] = AbsentRoot]
MoveRemove ==
  /\ settingsRun.pc = "rm"
  /\ LET src == settingsRun.source
     IN \/ settingsRun' = saveSettingsEnter(
               [settingsRun EXCEPT !.roots = rmRecursive(@, src)])
        \/ \E removed \in SUBSET settingsRun.roots[src].files :
             settingsRun' = SettingsReturn(
               [settingsRun EXCEPT !.roots = rmEntries(@, src, removed),
                                   !.failedAt = "rm"],
               MigrateError)
  /\ UNCHANGED <<mainVars, pathVars, ckVars, roundTrip, ipcRun, detectRun, catalogRun, folderRun, splitRun, mainRun, gameRows, applyRun>>

\* saveSettings: mkdir(dataRoot), mkdir(storageRoot), writeFile(settings.json)
SaveMkdirDataRoot ==
  /\ settingsRun.pc = "saveMkdirData"
  /\ \/ settingsRun' = [settingsRun EXCEPT !.pc = "saveMkdirStorage"]
     \/ settingsRun' = SettingsReturn(settingsRun, FsError)
  /\ UNCHANGED <<mainVars, pathVars, ckVars, roundTrip, ipcRun, detectRun, catalogRun, folderRun, splitRun, mainRun, gameRows, applyRun>>

SaveMkdirStorageRoot ==
  /\ settingsRun.pc = "saveMkdirStorage"
  /\ \/ settingsRun' = [settingsRun EXCEPT
                          !.pc = "saveWrite",
                          !.roots = mkdirRecursive(@, settingsRun.next.storageRoot)]
     \/ settingsRun' = SettingsReturn(settingsRun, FsError)
  /\ UNCHANGED <<mainVars, pathVars, ckVars, roundTrip, ipcRun, detectRun, catalogRun, folderRun, splitRun, mainRun, gameRows, applyRun>>

SaveWriteFile ==
  /\ settingsRun.pc = "saveWrite"
  /\ \/ settingsRun' = SettingsReturn(
            [settingsRun EXCEPT !.persisted = settingsRun.next], "ok")
     \/ settingsRun' = SettingsReturn(settingsRun, FsError)
  /\ UNCHANGED <<mainVars, pathVars, ckVars, roundTrip, ipcRun, detectRun, catalogRun, folderRun, splitRun, mainRun, gameRows, applyRun>>

\* after loadSettings: settings.json and cachedSettings agree; the data root's
\* default storage root holds some files, or someone has deleted the directory
\* since loadSettings ensured it
InitSettings ==
  /\ InitIdle
  /\ PathsIdle /\ ChecksumIdle /\ RoundTripIdle /\ IpcIdle /\ DetectIdle /\ CatalogIdle /\ FoldersIdle /\ SplitIdle /\ MainIdle /\ GameRowsIdle /\ ApplyIdle
  /\ \E held \in SUBSET StorageFileNames, others \in SUBSET {CustomRoot},
        there \in BOOLEAN :
       /\ ~there => held = {}
       /\ LET defaults == [dataRoot |-> "D1",
                           storageRoot |-> getDefaultStorageRootForDataRoot("D1")]
          IN settingsRun =
               [pc |-> "idle", updates |-> 0, cached |-> defaults, persisted |-> defaults,
                next |-> defaults, result |-> "none",
                source |-> defaults.storageRoot, destination |-> defaults.storageRoot,
                before |-> [cached |-> defaults, persisted |-> defaults, files |-> held],
                failedAt |-> "none",
                roots |-> [r \in StorageRoots |->
                             IF r = defaults.storageRoot
                             THEN [present |-> there, files |-> held]
                             ELSE IF r \in others
                                  THEN [present |-> TRUE, files |-> {}]
                                  ELSE AbsentRoot]]

NextSettingsRun ==
  \/ UpdateSettings
  \/ MoveMkdirOnly
  \/ MoveRename
  \/ MoveMkdirDestination
  \/ MoveCopy
  \/ MoveRemove
  \/ SaveMkdirDataRoot
  \/ SaveMkdirStorageRoot
  \/ SaveWriteFile

SpecSettings == InitSettings /\ [][NextSettingsRun]_vars


\* --------------------------------------------------- main: the ipc handlers
\* registerIpc. A request is a channel and a payload that its parser accepts or
\* rejects; the library behind the handlers is reduced to the number of
\* changes made to the index and to the disk.
MaxRequests == 3
RECOVERY_MODE_BLOCK_MESSAGE ==
  "GameSaver is in recovery mode. Open Settings and set a valid Data Folder to continue."
InvalidPayload == "Invalid payload"
\* the handlers that begin with getRequiredDb()
LibraryChannels ==
  {"games:list", "games:get", "games:add", "games:remove", "games:launch",
   "savelocations:add", "savelocations:toggle", "savelocations:remove",
   "backup:now", "backup:scan", "restore:snapshot",
   "snapshot:verify", "snapshot:remove"}
Channels == LibraryChannels \cup {"settings:get", "settings:update"}
\* the handlers that take no payload
NoPayloadChannels == {"games:list", "backup:scan", "settings:get"}
\* the handlers whose service only reads the index
ReadingChannels == {"games:list", "games:get"}
\* the handlers whose service writes below the storage root or a save location
DiskChannels ==
  {"games:add", "games:remove", "backup:now", "backup:scan", "restore:snapshot",
   "snapshot:remove", "savelocations:add", "savelocations:toggle"}
RecoveryDataRoots == DataRoots \cup {"fallback"}

\* getRequiredDb throws
getRequiredDbThrows(run) == run.recoveryMode \/ ~run.db

Handled(run, channel, payloadValid, parsed, result) ==
  [run EXCEPT !.requests = @ + 1, !.channel = channel,
              !.payloadValid = payloadValid, !.parsed = parsed, !.result = result]

\* the service behind a library handler, once the payload is accepted
ServiceOutcomes(run, channel) ==
  IF channel \in ReadingChannels THEN {run}
  ELSE {[run EXCEPT !.index = @ + 1,
                    !.disk = IF channel \in DiskChannels /\ wrote THEN @ + 1 ELSE @]
          : wrote \in BOOLEAN}

\* the payload is parsed before the database is required
HandleLibraryParseFirst(run, channel, payloadValid) ==
  IF channel \notin NoPayloadChannels /\ ~payloadValid
  THEN {Handled(run, channel, payloadValid, TRUE, InvalidPayload)}
  ELSE IF getRequiredDbThrows(run)
       THEN {Handled(run, channel, payloadValid, channel \notin NoPayloadChannels,
                     RECOVERY_MODE_BLOCK_MESSAGE)}
       ELSE {Handled(r, channel, payloadValid, channel \notin NoPayloadChannels, "ok")
               : r \in ServiceOutcomes(run, channel)}

\* a handler of LibraryChannels: getRequiredDb(), the parser, the service
HandleLibrary(run, channel, payloadValid) ==
  IF getRequiredDbThrows(run)
  THEN {Handled(run, channel, payloadValid, FALSE, RECOVERY_MODE_BLOCK_MESSAGE)}
  ELSE IF channel \notin NoPayloadChannels /\ ~payloadValid
       THEN {Handled(run, channel, payloadValid, TRUE, InvalidPayload)}
       ELSE {Handled(r, channel, payloadValid, channel \notin NoPayloadChannels, "ok")
               : r \in ServiceOutcomes(run, channel)}

\* variant: recovery mode is entered and db keeps its value
setRecoveryModeOnly(run, root) ==
  [run EXCEPT !.recoveryMode = TRUE, !.dataRoot = root]

\* setStartupRecoveryState: recovery mode, the recovery settings, db = null
setStartupRecoveryState(run, root) ==
  [run EXCEPT !.recoveryMode = TRUE, !.dataRoot = root, !.db = FALSE]

\* recoverFromStartupFailure: the directories are made, the data root is
\* staged, the settings saved and the database opened; any of it may throw
recoverFromStartupFailure(run, dataRoot) ==
  {[run EXCEPT !.recoveryMode = FALSE, !.db = TRUE, !.dataRoot = dataRoot,
               !.disk = @ + 1, !.result = "ok"]}
  \cup {[run EXCEPT !.result = "fs error"]}
  \cup {[setStartupRecoveryState(run, root) EXCEPT !.disk = @ + 1,
                                                   !.result = "fs error"]
          : root \in RecoveryDataRoots}

\* settings:update outside recovery mode: updateSettings, then the database is
\* closed and opened again; a failure there enters recovery mode
updateAndReopen(run, dataRoot) ==
  {[run EXCEPT !.dataRoot = dataRoot, !.disk = @ + 1, !.result = "ok"]}
  \cup {[run EXCEPT !.result = "fs error"]}
  \cup {[setStartupRecoveryState(run, root) EXCEPT !.disk = @ + 1,
                                                   !.result = "fs error"]
          : root \in RecoveryDataRoots}

HandleSettingsUpdate(run, payloadValid, dataRoot) ==
  LET parsed == Handled(run, "settings:update", payloadValid, TRUE, "none")
  IN IF ~payloadValid
     THEN {[parsed EXCEPT !.result = InvalidPayload]}
     ELSE IF run.recoveryMode
          THEN recoverFromStartupFailure(parsed, dataRoot)
          ELSE updateAndReopen(parsed, dataRoot)

LibraryRequest ==
  /\ ipcRun.requests < MaxRequests
  /\ \E channel \in LibraryChannels, payloadValid \in BOOLEAN :
       ipcRun' \in HandleLibrary(ipcRun, channel, payloadValid)
  /\ UNCHANGED <<mainVars, pathVars, ckVars, roundTrip, settingsRun, detectRun, catalogRun, folderRun, splitRun, mainRun, gameRows, applyRun>>

SettingsGet ==
  /\ ipcRun.requests < MaxRequests
  /\ ipcRun' = Handled(ipcRun, "settings:get", TRUE, FALSE, "ok")
  /\ UNCHANGED <<mainVars, pathVars, ckVars, roundTrip, settingsRun, detectRun, catalogRun, folderRun, splitRun, mainRun, gameRows, applyRun>>

SettingsUpdate ==
  /\ ipcRun.requests < MaxRequests
  /\ \E payloadValid \in BOOLEAN, dataRoot \in DataRoots :
       ipcRun' \in HandleSettingsUpdate(ipcRun, payloadValid, dataRoot)
  /\ UNCHANGED <<mainVars, pathVars, ckVars, roundTrip, settingsRun, detectRun, catalogRun, folderRun, splitRun, mainRun, gameRows, applyRun>>

\* after bootstrap: the database is open, or the startup failed and
\* setStartupRecoveryState has run
InitIpc ==
  /\ InitIdle
  /\ PathsIdle /\ ChecksumIdle /\ RoundTripIdle /\ SettingsIdle /\ DetectIdle /\ CatalogIdle /\ FoldersIdle /\ SplitIdle /\ MainIdle /\ GameRowsIdle /\ ApplyIdle
  /\ \E recovery \in BOOLEAN, root \in RecoveryDataRoots :
       /\ ~recovery => root \in DataRoots
       /\ ipcRun = [pc |-> "idle", recoveryMode |-> recovery, db |-> ~recovery,
                    dataRoot |-> root, index |-> 0, disk |-> 0, requests |-> 0,
                    channel |-> "none", payloadValid |-> TRUE, parsed |-> FALSE,
                    result |-> "none"]

NextIpc == LibraryRequest \/ SettingsGet \/ SettingsUpdate

SpecIpc == InitIpc /\ [][NextIpc]_vars

\* ------------------------------------------- main: settings:update, step by step
\* The handler of settings:update from one await to the next; several calls
\* may be under way at once. userData is app.getPath('userData'), dataRoot is
\* settings.dataRoot, db is whether main's db holds a database.
MaxUpdateCalls == 3
UpdateCalls == {"u1", "u2"}
toAppStatePath(dataRoot) == <<dataRoot, "AppState">>
AbsentDataRoot == "absent"
NoUpdateCall ==
  [pc |-> "idle", recovering |-> FALSE, previousUserData |-> toAppStatePath("fallback"),
   currentDataRoot |-> "fallback", payloadDataRoot |-> AbsentDataRoot,
   requestedDataRoot |-> "fallback", result |-> "none", alone |-> TRUE,
   serial |-> 0, settledAt |-> "idle"]
UpdateUnderWay(call) == call.pc \notin {"idle", "done"}

\* the call ends: it returns the settings or rejects
UpdateSettled(run, c, result) ==
  [run EXCEPT !.calls[c].pc = "done", !.calls[c].result = result,
              !.calls[c].settledAt = run.calls[c].pc]

\* recoverFromStartupFailure lines 1001-1005: the catch block
recoverCatch(run, c, root) ==
  UpdateSettled(
    setStartupRecoveryState([run EXCEPT !.userData = run.calls[c].previousUserData],
                            root),
    c, "failed")

\* lines 994-1000: settings = nextSettings, closeDb(), db = getDb(settings),
\* clearStartupRecoveryState(), startRuntimeServices(), return
recoverOpen(run, c) ==
  UpdateSettled([run EXCEPT !.dataRoot = run.calls[c].requestedDataRoot,
                            !.db = TRUE, !.recoveryMode = FALSE],
                c, "ok")

\* settings:update lines 1225-1235: closeDb() has run; db = getDb(settings),
\* then startRuntimeServices(), whose getRequiredDb() throws in recovery
\* mode; the catch block calls setStartupRecoveryState
updateReopen(run, c) ==
  (IF run.recoveryMode THEN {}
   ELSE {UpdateSettled([run EXCEPT !.db = TRUE], c, "ok")})
  \cup {UpdateSettled(setStartupRecoveryState(run, root), c, "failed")
          : root \in RecoveryDataRoots}

\* lines 1198-1211 and 967-974: the payload is parsed; in recovery mode the
\* call goes to recoverFromStartupFailure and waits for the first mkdir,
\* else it waits for updateSettings
UpdateBegin(c) ==
  /\ mainRun.pc = "run"
  /\ ~UpdateUnderWay(mainRun.calls[c])
  /\ mainRun.started < MaxUpdateCalls
  /\ \E payloadValid \in BOOLEAN, payloadDataRoot \in DataRoots \cup {AbsentDataRoot} :
       LET alone == \A o \in UpdateCalls \ {c} : ~UpdateUnderWay(mainRun.calls[o])
           begun == [NoUpdateCall EXCEPT
                       !.recovering = mainRun.recoveryMode,
                       !.previousUserData = mainRun.userData,
                       !.currentDataRoot = mainRun.dataRoot,
                       !.payloadDataRoot = payloadDataRoot,
                       !.requestedDataRoot =
                          IF payloadDataRoot = AbsentDataRoot THEN mainRun.dataRoot
                          ELSE payloadDataRoot,
                       !.alone = alone,
                       !.serial = mainRun.started + 1,
                       !.settledAt = IF payloadValid THEN "idle" ELSE "parse"]
           pc == IF ~payloadValid THEN "done"
                 ELSE IF mainRun.recoveryMode THEN "mkdirData" ELSE "update"
       IN mainRun' =
            [mainRun EXCEPT
               !.started = @ + 1,
               !.calls = [o \in UpdateCalls |->
                            IF o = c
                            THEN [begun EXCEPT !.pc = pc,
                                               !.result = IF payloadValid THEN "none"
                                                          ELSE "failed"]
                            ELSE IF UpdateUnderWay(@[o]) /\ payloadValid
                                 THEN [@[o] EXCEPT !.alone = FALSE]
                                 ELSE @[o]]]
  /\ UNCHANGED <<mainVars, pathVars, ckVars, roundTrip, settingsRun, ipcRun, detectRun, catalogRun, folderRun, splitRun, gameRows, applyRun>>

\* line 973: mkdir of the requested data root, outside the try block
RecoverMkdirData(c) ==
  /\ mainRun.calls[c].pc = "mkdirData"
  /\ \/ mainRun' = [mainRun EXCEPT !.calls[c].pc = "mkdirStorage"]
     \/ mainRun' = UpdateSettled(mainRun, c, "failed")
  /\ UNCHANGED <<mainVars, pathVars, ckVars, roundTrip, settingsRun, ipcRun, detectRun, catalogRun, folderRun, splitRun, gameRows, applyRun>>

\* lines 974-985: mkdir of the storage root; then app.setPath('userData', ...)
\* and the wait for stageDataRootMigration
RecoverMkdirStorage(c) ==
  /\ mainRun.calls[c].pc = "mkdirStorage"
  /\ \/ mainRun' = [mainRun EXCEPT
                       !.calls[c].pc = "stage",
                       !.userData = toAppStatePath(mainRun.calls[c].requestedDataRoot)]
     \/ mainRun' = UpdateSettled(mainRun, c, "failed")
  /\ UNCHANGED <<mainVars, pathVars, ckVars, roundTrip, settingsRun, ipcRun, detectRun, catalogRun, folderRun, splitRun, gameRows, applyRun>>

\* lines 986-993: stageDataRootMigration settles; then the wait for saveSettings
RecoverStage(c) ==
  /\ mainRun.calls[c].pc = "stage"
  /\ \/ mainRun' = [mainRun EXCEPT !.calls[c].pc = "save"]
     \/ \E root \in RecoveryDataRoots : mainRun' = recoverCatch(mainRun, c, root)
  /\ UNCHANGED <<mainVars, pathVars, ckVars, roundTrip, settingsRun, ipcRun, detectRun, catalogRun, folderRun, splitRun, gameRows, applyRun>>

\* lines 993-1005: saveSettings settles; the database is opened, or the catch
\* block runs
RecoverSave(c) ==
  /\ mainRun.calls[c].pc = "save"
  /\ \/ mainRun' = recoverOpen(mainRun, c)
     \/ \E root \in RecoveryDataRoots : mainRun' = recoverCatch(mainRun, c, root)
  /\ UNCHANGED <<mainVars, pathVars, ckVars, roundTrip, settingsRun, ipcRun, detectRun, catalogRun, folderRun, splitRun, gameRows, applyRun>>

\* lines 1211-1224: updateSettings settles; settings = next, closeDb(), and
\* the wait for stageDataRootMigration when the data root changes
UpdateSaved(c) ==
  /\ mainRun.calls[c].pc = "update"
  /\ LET call == mainRun.calls[c]
         dataRootChanged == /\ call.payloadDataRoot # AbsentDataRoot
                            /\ call.payloadDataRoot # call.currentDataRoot
         saved == [mainRun EXCEPT
                     !.dataRoot = IF call.payloadDataRoot = AbsentDataRoot THEN @
                                  ELSE call.payloadDataRoot]
     IN \/ mainRun' = UpdateSettled(mainRun, c, "failed")
        \/ dataRootChanged /\ mainRun' = [saved EXCEPT !.calls[c].pc = "migrate"]
        \/ ~dataRootChanged /\ mainRun' \in updateReopen(saved, c)
  /\ UNCHANGED <<mainVars, pathVars, ckVars, roundTrip, settingsRun, ipcRun, detectRun, catalogRun, folderRun, splitRun, gameRows, applyRun>>

\* lines 1219-1235: stageDataRootMigration settles
UpdateMigrated(c) ==
  /\ mainRun.calls[c].pc = "migrate"
  /\ mainRun' \in updateReopen(mainRun, c)
  /\ UNCHANGED <<mainVars, pathVars, ckVars, roundTrip, settingsRun, ipcRun, detectRun, catalogRun, folderRun, splitRun, gameRows, applyRun>>

\* after app.whenReady (lines 1257-1266): the database is open, or
\* setStartupRecoveryState has run
InitMain ==
  /\ InitIdle
  /\ PathsIdle /\ ChecksumIdle /\ RoundTripIdle /\ SettingsIdle /\ IpcIdle /\ DetectIdle /\ CatalogIdle /\ FoldersIdle /\ SplitIdle /\ GameRowsIdle /\ ApplyIdle
  /\ \E recovery \in BOOLEAN, root \in RecoveryDataRoots :
       /\ ~recovery => root \in DataRoots
       /\ mainRun = [pc |-> "run", recoveryMode |-> recovery, db |-> ~recovery,
                     dataRoot |-> root, userData |-> toAppStatePath("D1"),
                     started |-> 0, calls |-> [c \in UpdateCalls |-> NoUpdateCall]]

NextMain ==
  \E c \in UpdateCalls :
    \/ UpdateBegin(c)
    \/ RecoverMkdirData(c)
    \/ RecoverMkdirStorage(c)
    \/ RecoverStage(c)
    \/ RecoverSave(c)
    \/ UpdateSaved(c)
    \/ UpdateMigrated(c)

SpecMain == InitMain /\ [][NextMain]_vars

\* ------------------------------------ catalogSaveDetectionService: detection
\* detectCatalogSavePaths. The similarity of a query and a title is a number
\* of hundredths; a catalog entry carries the scores of the query names and
\* its Windows save locations, each of which resolves on this machine to a
\* valid candidate path or to none.
MatchThreshold == 45
AmbiguousThreshold == 65
AmbiguousMargin == 5
MaxLocations == 2
DetectScores == {0, 44, 45, 46, 64, 65, 84, 86, 90}
QueryScores == {<<first, second>> : first \in DetectScores, second \in {0, 46}}
WindowsLocations == UNION {[1..n -> BOOLEAN] : n \in 0..MaxLocations}
CatalogEntries(title) ==
  [title : {title}, scores : QueryScores, windowsLocations : WindowsLocations]
\* what loadCatalogEntries gives: the entries of the catalog file
Catalogs ==
  {<<>>}
  \cup {<<a>> : a \in CatalogEntries("A")}
  \cup {<<a, b>> : a \in CatalogEntries("A"), b \in CatalogEntries("B")}

\* queryNames.reduce((best, query) => Math.max(best, score(query, title)), 0)
RECURSIVE bestQueryScore(_, _)
bestQueryScore(scores, best) ==
  IF scores = <<>> THEN best
  ELSE bestQueryScore(Tail(scores), Max(best, Head(scores)))

\* entries.map(...).sort((left, right) => right.score - left.score), stable
RECURSIVE InsertRanked(_, _)
InsertRanked(ranked, item) ==
  IF ranked = <<>> THEN <<item>>
  ELSE IF Head(ranked).score - item.score >= 0
       THEN <<Head(ranked)>> \o InsertRanked(Tail(ranked), item)
       ELSE <<item>> \o ranked
RECURSIVE RankFrom(_, _)
RankFrom(entries, ranked) ==
  IF entries = <<>> THEN ranked
  ELSE RankFrom(Tail(entries),
                InsertRanked(ranked, [entry |-> Head(entries),
                                      score |-> bestQueryScore(Head(entries).scores, 0)]))
rankEntries(entries) == RankFrom(entries, <<>>)

\* variant: a best score equal to the threshold is rejected too
NotAboveThreshold(score) == score <= MatchThreshold

\* line 196: best.score < 0.45
BelowThreshold(score) == score < MatchThreshold

\* variant: the runner-up's own score is not looked at
TitleAmbiguousByMargin(ranked) ==
  /\ Len(ranked) >= 2
  /\ ranked[1].score - ranked[2].score <= AmbiguousMargin

\* line 210
TitleAmbiguous(ranked) ==
  /\ Len(ranked) >= 2
  /\ ranked[2].score >= AmbiguousThreshold
  /\ ranked[1].score - ranked[2].score <= AmbiguousMargin

\* Math.max(0, Math.min(100, Math.round(percent)))
clampPercent(percent) == Max(0, Min(100, percent))

\* reportProgress: nothing without a callback; the callback is called with the
\* clamped payload, and what it throws leaves reportProgress and rejects the
\* promise of detectCatalogSavePaths
reportProgress(run, percent, processed, total, thrown) ==
  IF run.callback = "none" \/ run.status = "rejected" THEN run
  ELSE [run EXCEPT
          !.events = Append(@, [percent |-> clampPercent(percent),
                                processed |-> Max(0, processed),
                                total |-> Max(1, total)]),
          !.pc = IF thrown THEN "done" ELSE @,
          !.status = IF thrown THEN "rejected" ELSE @]
\* the callback throws only when it is one that throws
MayThrow(thrown) == thrown => detectRun.callback = "throws"
\* the code after a reportProgress runs when the callback returned
AndThen(run, next) == IF run.status = "rejected" THEN run ELSE next

\* variant: the percent of a location without the 20 of the earlier phases
locationPercentFromZero(index, total) ==
  (140 * index + Max(1, total)) \div (2 * Max(1, total))

\* 20 + Math.round((index / Math.max(1, totalLocations)) * 70)
locationPercent(index, total) ==
  20 + (140 * index + Max(1, total)) \div (2 * Max(1, total))

DetectReturn(run, outcome, title, score, ambiguous) ==
  [run EXCEPT !.pc = "done", !.status = outcome, !.matchedTitle = title,
              !.matchScore = score, !.titleAmbiguous = ambiguous]

\* the call: the first event, up to `await loadCatalogEntries(...)`
DetectStart ==
  /\ detectRun.pc = "start"
  /\ \E thrown \in BOOLEAN :
       /\ MayThrow(thrown)
       /\ LET reported == reportProgress(detectRun, 5, 0, 1, thrown)
          IN detectRun' = AndThen(reported, [reported EXCEPT !.pc = "load"])
  /\ UNCHANGED <<mainVars, pathVars, ckVars, roundTrip, settingsRun, ipcRun, catalogRun, folderRun, splitRun, mainRun, gameRows, applyRun>>

\* `await loadCatalogEntries(...)` resolves
DetectLoadCatalog ==
  /\ detectRun.pc = "load"
  /\ \E thrown \in BOOLEAN :
       /\ MayThrow(thrown)
       /\ detectRun' =
            IF ~detectRun.catalogExists
            THEN DetectReturn(detectRun, "catalog-missing", "", 0, FALSE)
            ELSE IF detectRun.entries = <<>>
            THEN DetectReturn(detectRun, "catalog-invalid", "", 0, FALSE)
            ELSE LET reported == reportProgress(detectRun, 15, 0, 1, thrown)
                 IN AndThen(reported, [reported EXCEPT !.pc = "match"])
  /\ UNCHANGED <<mainVars, pathVars, ckVars, roundTrip, settingsRun, ipcRun, catalogRun, folderRun, splitRun, mainRun, gameRows, applyRun>>

\* `await readExeMetadata(...)` settles: the titles are ranked, the best one is
\* taken or rejected, the ambiguity is flagged and warned about, and the
\* Windows locations of the best title are extracted
DetectMatchTitle ==
  /\ detectRun.pc = "match"
  /\ LET ranked == rankEntries(detectRun.entries)
         best == ranked[1]
         titleAmbiguous == TitleAmbiguous(ranked)
         warned == [detectRun EXCEPT
                      !.warnings = IF titleAmbiguous THEN @ + 1 ELSE @]
     IN detectRun' =
          IF BelowThreshold(best.score)
          THEN DetectReturn(detectRun, "no-match", "", best.score, FALSE)
          ELSE IF best.entry.windowsLocations = <<>>
          THEN DetectReturn(warned, "no-windows-locations", best.entry.title,
                            best.score, titleAmbiguous)
          ELSE [warned EXCEPT !.pc = "libraries", !.matchedTitle = best.entry.title,
                              !.matchScore = best.score,
                              !.titleAmbiguous = titleAmbiguous,
                              !.windowsLocations = best.entry.windowsLocations]
  /\ UNCHANGED <<mainVars, pathVars, ckVars, roundTrip, settingsRun, ipcRun, catalogRun, folderRun, splitRun, mainRun, gameRows, applyRun>>

\* `await listSteamLibraries()` settles: the event that opens the resolution
DetectListLibraries ==
  /\ detectRun.pc = "libraries"
  /\ \E thrown \in BOOLEAN :
       /\ MayThrow(thrown)
       /\ LET reported == reportProgress(detectRun, 20, 0,
                                         Len(detectRun.windowsLocations), thrown)
          IN detectRun' = AndThen(reported, [reported EXCEPT !.pc = "resolve"])
  /\ UNCHANGED <<mainVars, pathVars, ckVars, roundTrip, settingsRun, ipcRun, catalogRun, folderRun, splitRun, mainRun, gameRows, applyRun>>

\* one turn of the loop over windowsLocations: an event before the location is
\* checked and one after it
DetectCheckLocation ==
  /\ detectRun.pc = "resolve"
  /\ detectRun.index < Len(detectRun.windowsLocations)
  /\ \E before \in BOOLEAN, after \in BOOLEAN :
       /\ MayThrow(before) /\ MayThrow(after)
       /\ LET index == detectRun.index
              total == Len(detectRun.windowsLocations)
              checking == reportProgress(detectRun, locationPercent(index, total),
                                         index, total, before)
              checked == [checking EXCEPT
                            !.candidates = @ +
                              (IF detectRun.windowsLocations[index + 1] THEN 1 ELSE 0)]
              validated == reportProgress(checked, locationPercent(index + 1, total),
                                          index + 1, total, after)
          IN detectRun' =
               AndThen(checking,
                       AndThen(validated, [validated EXCEPT !.index = index + 1]))
  /\ UNCHANGED <<mainVars, pathVars, ckVars, roundTrip, settingsRun, ipcRun, catalogRun, folderRun, splitRun, mainRun, gameRows, applyRun>>

\* after the loop: the last event, the candidates are merged and the result
\* is returned
DetectResolve ==
  /\ detectRun.pc = "resolve"
  /\ detectRun.index = Len(detectRun.windowsLocations)
  /\ \E thrown \in BOOLEAN :
       /\ MayThrow(thrown)
       /\ LET total == Len(detectRun.windowsLocations)
              reported == reportProgress(detectRun, 95, total, total, thrown)
          IN detectRun' =
               AndThen(reported,
                       [reported EXCEPT
                          !.pc = "done",
                          !.status = IF reported.candidates = 0
                                     THEN "no-valid-candidates" ELSE "matched"])
  /\ UNCHANGED <<mainVars, pathVars, ckVars, roundTrip, settingsRun, ipcRun, catalogRun, folderRun, splitRun, mainRun, gameRows, applyRun>>

InitDetect ==
  /\ InitIdle
  /\ PathsIdle /\ ChecksumIdle /\ RoundTripIdle /\ SettingsIdle /\ IpcIdle /\ CatalogIdle /\ FoldersIdle /\ SplitIdle /\ MainIdle /\ GameRowsIdle /\ ApplyIdle
  /\ \E entries \in Catalogs, catalogExists \in BOOLEAN,
        callback \in {"none", "returns", "throws"} :
       /\ ~catalogExists => entries = <<>>
       /\ detectRun = [pc |-> "start", catalogExists |-> catalogExists,
                    entries |-> entries, callback |-> callback, status |-> "none",
                    matchedTitle |-> "", matchScore |-> 0, titleAmbiguous |-> FALSE,
                    warnings |-> 0, events |-> <<>>, windowsLocations |-> <<>>,
                    index |-> 0, candidates |-> 0]

NextDetect ==
  \/ DetectStart
  \/ DetectLoadCatalog
  \/ DetectMatchTitle
  \/ DetectListLibraries
  \/ DetectCheckLocation
  \/ DetectResolve

SpecDetect == InitDetect /\ [][NextDetect]_vars

\* ------------------------------------------ main: applyCatalogDetectionForGame
\* The result of detectCatalogSavePaths for a game just added: its status, its
\* titleAmbiguous flag and its candidates, sorted by falling score; a candidate
\* is <<its path, its score in hundredths>>, the paths being 1, 2, ... A
\* candidate scores between 0.65 (an empty directory) and 1.
MaxCandidates == 3
CandidateScores == {65, 75, 80, 90, 100}
PathMargin == 10
AutoAddScore == 75
DialogOptions == 3
CandidateLists ==
  UNION {{[i \in 1..n |-> [path |-> i, score |-> scores[i]]]
            : scores \in {f \in [1..n -> CandidateScores] :
                            \A i \in 1..n : i > 1 => f[i - 1] >= f[i]}}
         : n \in 0..MaxCandidates}

\* line 814
isAmbiguous(titleAmbiguous, candidates) ==
  \/ titleAmbiguous
  \/ Len(candidates) >= 2 /\ candidates[1].score - candidates[2].score <= PathMargin

\* line 675
dialogOptions(candidates) == SubSeq(candidates, 1, Min(DialogOptions, Len(candidates)))

\* lines 753-853, from the detection result to the save location added at
\* once, or to the call of promptForCatalogPathChoice
ApplyDetection ==
  /\ applyRun.pc = "detected"
  /\ LET candidates == applyRun.candidates
     IN applyRun' =
          IF applyRun.status # "matched" \/ candidates = <<>>
          THEN [applyRun EXCEPT !.pc = "done", !.message = "without path"]
          ELSE IF ~isAmbiguous(applyRun.titleAmbiguous, candidates)
                  /\ candidates[1].score >= AutoAddScore
          THEN [applyRun EXCEPT !.pc = "done", !.message = "auto-detected",
                                !.added = Append(@, candidates[1].path)]
          ELSE [applyRun EXCEPT !.pc = "prompt"]
  /\ UNCHANGED <<mainVars, pathVars, ckVars, roundTrip, settingsRun, ipcRun, detectRun,
                 catalogRun, folderRun, splitRun, mainRun, gameRows>>

\* promptForCatalogPathChoice with one option: its path is returned and no
\* dialog is opened (lines 679-681); the location is added (lines 873-879)
ApplySingleOption ==
  /\ applyRun.pc = "prompt"
  /\ Len(dialogOptions(applyRun.candidates)) = 1
  /\ applyRun' = [applyRun EXCEPT
                    !.pc = "done", !.message = "confirmed",
                    !.added = Append(@, dialogOptions(applyRun.candidates)[1].path)]
  /\ UNCHANGED <<mainVars, pathVars, ckVars, roundTrip, settingsRun, ipcRun, detectRun,
                 catalogRun, folderRun, splitRun, mainRun, gameRows>>

\* promptForCatalogPathChoice with several options: the dialog with a button
\* for each and 'Skip' is answered (lines 683-700), and the choice is added or
\* nothing is (lines 858-879)
ApplyDialogAnswer ==
  /\ applyRun.pc = "prompt"
  /\ Len(dialogOptions(applyRun.candidates)) > 1
  /\ LET options == dialogOptions(applyRun.candidates)
     IN \E response \in 0..Len(options) :
          applyRun' =
            IF response >= Len(options)
            THEN [applyRun EXCEPT !.pc = "done", !.message = "skipped",
                                  !.dialog = "shown", !.response = response]
            ELSE [applyRun EXCEPT !.pc = "done", !.message = "confirmed",
                                  !.dialog = "shown", !.response = response,
                                  !.added = Append(@, options[response + 1].path)]
  /\ UNCHANGED <<mainVars, pathVars, ckVars, roundTrip, settingsRun, ipcRun, detectRun,
                 catalogRun, folderRun, splitRun, mainRun, gameRows>>

InitApply ==
  /\ InitIdle
  /\ PathsIdle /\ ChecksumIdle /\ RoundTripIdle /\ SettingsIdle /\ IpcIdle /\ DetectIdle /\ CatalogIdle /\ FoldersIdle /\ SplitIdle /\ MainIdle /\ GameRowsIdle
  /\ \E outcome \in {"matched", "no-match"}, titleAmbiguous \in BOOLEAN,
        candidates \in CandidateLists :
       /\ outcome # "matched" => candidates = <<>> /\ ~titleAmbiguous
       /\ applyRun = [pc |-> "detected", status |-> outcome,
                      titleAmbiguous |-> titleAmbiguous, candidates |-> candidates,
                      added |-> <<>>, message |-> "", dialog |-> "none",
                      response |-> -1]

NextApply == ApplyDetection \/ ApplySingleOption \/ ApplyDialogAnswer

SpecApply == InitApply /\ [][NextApply]_vars

\* ------------------------------- catalogSaveDetectionService: the catalog file
\* loadCatalogEntries without an adapter. A catalog file is absent, or holds
\* text that is no JSON, or a JSON document whose root is an array, an object
\* with a `games` array, or an object without one. An item of the array is an
\* object with a title (a string of tokens, or a value that is no string) or a
\* value that is no object.
MaxRewrites == 1
CatalogTitleTexts == {<<"A">>, <<" ", "A", " ">>, <<"B">>, <<" ">>}
CatalogItems ==
  [object : {TRUE}, titleIsString : {TRUE}, title : CatalogTitleTexts]
  \cup {[object |-> TRUE, titleIsString |-> FALSE, title |-> <<>>],
        [object |-> FALSE, titleIsString |-> FALSE, title |-> <<>>]}
CatalogItemLists ==
  {<<>>} \cup {<<a>> : a \in CatalogItems}
         \cup {<<a, b>> : a \in CatalogItems, b \in CatalogItems}
CatalogFiles ==
  [exists : {TRUE}, shape : {"array", "games"}, items : CatalogItemLists]
  \cup [exists : {TRUE}, shape : {"object", "text"}, items : {<<>>}]
  \cup [exists : {FALSE}, shape : {"none"}, items : {<<>>}]
NoGamesArray == [found |-> FALSE, games |-> <<>>]
NullEntries == [isNull |-> TRUE, entries |-> <<>>]
Entries(entries) == [isNull |-> FALSE, entries |-> entries]

\* lines 474-480: an array root, like a root that is no object, gives null
getCatalogGamesArray(document) ==
  IF document.shape = "games"
  THEN [found |-> TRUE, games |-> document.items]
  ELSE NoGamesArray

\* lines 458-465: the objects among the items, their titles trimmed, those
\* with an empty title dropped
RECURSIVE catalogEntriesOf(_)
catalogEntriesOf(games) ==
  IF games = <<>> THEN <<>>
  ELSE LET item == Head(games)
           title == IF item.titleIsString THEN trim(item.title) ELSE <<>>
       IN (IF item.object /\ title # <<>> THEN <<[title |-> title]>> ELSE <<>>)
          \o catalogEntriesOf(Tail(games))

\* lines 426-472; the result and the cache after the call
loadCatalogEntries(file, mtimeMs, cache) ==
  IF ~file.exists
  THEN [result |-> NullEntries, cache |-> cache]
  ELSE IF cache.set /\ cache.mtimeMs = mtimeMs
  THEN [result |-> Entries(cache.entries), cache |-> cache]
  ELSE IF file.shape = "text"
  THEN [result |-> Entries(<<>>), cache |-> cache]
  ELSE LET games == getCatalogGamesArray(file)
       IN IF ~games.found
          THEN [result |-> Entries(<<>>), cache |-> cache]
          ELSE LET entries == catalogEntriesOf(games.games)
               IN [result |-> Entries(entries),
                   cache |-> [set |-> TRUE, mtimeMs |-> mtimeMs, entries |-> entries]]

\* detectCatalogSavePaths, lines 134-159: how the detection goes on
catalogStatus(result) ==
  IF result.isNull THEN "catalog-missing"
  ELSE IF result.entries = <<>> THEN "catalog-invalid"
  ELSE "loaded"

\* a detection loads the catalog
CatalogLoad ==
  /\ catalogRun.pc = "ready"
  /\ LET loaded == loadCatalogEntries(catalogRun.file, catalogRun.mtimeMs,
                                      catalogRun.cache)
     IN catalogRun' = [catalogRun EXCEPT !.pc = "loaded",
                                         !.result = loaded.result,
                                         !.cache = loaded.cache,
                                         !.status = catalogStatus(loaded.result)]
  /\ UNCHANGED <<mainVars, pathVars, ckVars, roundTrip, settingsRun, ipcRun, detectRun, folderRun, splitRun, mainRun, gameRows, applyRun>>

\* the catalog file is replaced, with a later modification time
CatalogRewrite ==
  /\ catalogRun.pc = "loaded"
  /\ catalogRun.calls < MaxRewrites
  /\ \E file \in CatalogFiles :
       catalogRun' = [catalogRun EXCEPT !.pc = "ready", !.file = file,
                                        !.mtimeMs = @ + 1, !.calls = @ + 1]
  /\ UNCHANGED <<mainVars, pathVars, ckVars, roundTrip, settingsRun, ipcRun, detectRun, folderRun, splitRun, mainRun, gameRows, applyRun>>

\* another detection with the file as it is
CatalogDetectAgain ==
  /\ catalogRun.pc = "loaded"
  /\ catalogRun.calls < MaxRewrites
  /\ catalogRun' = [catalogRun EXCEPT !.pc = "ready", !.calls = @ + 1]
  /\ UNCHANGED <<mainVars, pathVars, ckVars, roundTrip, settingsRun, ipcRun, detectRun, folderRun, splitRun, mainRun, gameRows, applyRun>>

InitCatalog ==
  /\ InitIdle
  /\ PathsIdle /\ ChecksumIdle /\ RoundTripIdle /\ SettingsIdle /\ IpcIdle /\ DetectIdle /\ FoldersIdle /\ SplitIdle /\ MainIdle /\ GameRowsIdle /\ ApplyIdle
  /\ \E file \in CatalogFiles :
       catalogRun = [pc |-> "ready", file |-> file, mtimeMs |-> 1,
                     cache |-> [set |-> FALSE, mtimeMs |-> 0, entries |-> <<>>],
                     result |-> NullEntries, status |-> "none", calls |-> 0]

NextCatalog == CatalogLoad \/ CatalogRewrite \/ CatalogDetectAgain

SpecCatalog == InitCatalog /\ [][NextCatalog]_vars

\* the catalog file and the cache over loads and rewrites of the file: a
\* rewrite leaves a file of any content, or none, with a modification time
\* that differs from the one before
MaxLoads == 3
CatalogMtimes == 1..2
NoCache == [set |-> FALSE, mtimeMs |-> 0, entries |-> <<>>]
RewrittenCatalogFiles == {file \in CatalogFiles : Len(file.items) <= 1}

CatalogReload ==
  /\ catalogRun.pc = "ready"
  /\ catalogRun.calls < MaxLoads
  /\ LET loaded == loadCatalogEntries(catalogRun.file, catalogRun.mtimeMs,
                                      catalogRun.cache)
     IN catalogRun' = [catalogRun EXCEPT !.pc = "loaded",
                                         !.result = loaded.result,
                                         !.cache = loaded.cache,
                                         !.status = catalogStatus(loaded.result),
                                         !.calls = @ + 1]
  /\ UNCHANGED <<mainVars, pathVars, ckVars, roundTrip, settingsRun, ipcRun, detectRun, folderRun, splitRun, mainRun, gameRows, applyRun>>

CatalogReplace ==
  /\ catalogRun.pc \in {"ready", "loaded"}
  /\ \E file \in RewrittenCatalogFiles, mtimeMs \in CatalogMtimes :
       /\ mtimeMs # catalogRun.mtimeMs
       /\ catalogRun' = [catalogRun EXCEPT !.pc = "ready", !.file = file,
                                           !.mtimeMs = mtimeMs]
  /\ UNCHANGED <<mainVars, pathVars, ckVars, roundTrip, settingsRun, ipcRun, detectRun, folderRun, splitRun, mainRun, gameRows, applyRun>>

CatalogLoadAgain ==
  /\ catalogRun.pc = "loaded"
  /\ catalogRun' = [catalogRun EXCEPT !.pc = "ready"]
  /\ UNCHANGED <<mainVars, pathVars, ckVars, roundTrip, settingsRun, ipcRun, detectRun, folderRun, splitRun, mainRun, gameRows, applyRun>>

InitCatalogCache ==
  /\ InitIdle
  /\ PathsIdle /\ ChecksumIdle /\ RoundTripIdle /\ SettingsIdle /\ IpcIdle /\ DetectIdle /\ FoldersIdle /\ SplitIdle /\ MainIdle /\ GameRowsIdle /\ ApplyIdle
  /\ \E file \in RewrittenCatalogFiles :
       catalogRun = [pc |-> "ready", file |-> file, mtimeMs |-> 1,
                     cache |-> NoCache,
                     result |-> NullEntries, status |-> "none", calls |-> 0]

NextCatalogCache == CatalogReload \/ CatalogReplace \/ CatalogLoadAgain

SpecCatalogCache == InitCatalogCache /\ [][NextCatalogCache]_vars

\* --------------------- catalogSaveDetectionService: composite location strings
\* A location string is a sequence of characters; a text that
\* LOCATION_SPLIT_START_PATTERN matches (<token>, %VAR%, a registry root, a
\* drive) is one element "<t>", "x" is any other character of a path.
MaxLocationLen == 4
LocationChars == {"<t>", "x", " ", ";", ",", "\n"}
LocationStrings == UNION {[1..n -> LocationChars] : n \in 0..MaxLocationLen}
SeparatorChars == {",", ";", "|"}

\* line 513: replace(/\r?\n/g, ' ')
newlinesToBlanks(str) == [i \in 1..Len(str) |-> IF str[i] = "\n" THEN " " ELSE str[i]]

\* lines 518-534: the indices where a match of the pattern starts the string
\* or follows a blank, a comma, a semicolon or a pipe
markerStarts(normalized) ==
  {i \in 1..Len(normalized) :
     /\ normalized[i] = "<t>"
     /\ (i = 1 \/ normalized[i - 1] \in {" "} \cup SeparatorChars)}

\* String.prototype.split on /[;\n\r]+/g
RECURSIVE splitOnBreaks(_, _)
splitOnBreaks(str, part) ==
  IF str = <<>> THEN <<part>>
  ELSE IF Head(str) \in {";", "\n"}
  THEN IF Len(str) > 1 /\ str[2] \in {";", "\n"}
       THEN splitOnBreaks(Tail(str), part)
       ELSE <<part>> \o splitOnBreaks(Tail(str), <<>>)
  ELSE splitOnBreaks(Tail(str), Append(part, Head(str)))

\* map(trim) and filter(length > 0)
RECURSIVE trimmedNonEmpty(_)
trimmedNonEmpty(parts) ==
  IF parts = <<>> THEN <<>>
  ELSE (IF trim(Head(parts)) # <<>> THEN <<trim(Head(parts))>> ELSE <<>>)
       \o trimmedNonEmpty(Tail(parts))

\* replace(/^[,;|]+/, '') and replace(/[,;|]+$/, '')
RECURSIVE stripLeadingSeparators(_)
stripLeadingSeparators(str) ==
  IF str # <<>> /\ Head(str) \in SeparatorChars
  THEN stripLeadingSeparators(Tail(str)) ELSE str
RECURSIVE stripTrailingSeparators(_)
stripTrailingSeparators(str) ==
  IF str # <<>> /\ str[Len(str)] \in SeparatorChars
  THEN stripTrailingSeparators(SubSeq(str, 1, Len(str) - 1)) ELSE str

\* lines 546-554: the segment from one start to the next
locationSegment(normalized, start, end) ==
  trim(stripTrailingSeparators(stripLeadingSeparators(
         trim(SubSeq(normalized, start, end - 1)))))

\* lines 545-557: the segments of the starts from the index-th on
RECURSIVE segmentsFrom(_, _, _)
segmentsFrom(normalized, uniqueStarts, index) ==
  IF index > Len(uniqueStarts) THEN <<>>
  ELSE LET end == IF index < Len(uniqueStarts) THEN uniqueStarts[index + 1]
                  ELSE Len(normalized) + 1
           segment == locationSegment(normalized, uniqueStarts[index], end)
       IN (IF segment # <<>> THEN <<segment>> ELSE <<>>)
          \o segmentsFrom(normalized, uniqueStarts, index + 1)

\* the indices of a set in rising order
RECURSIVE sortedIndices(_)
sortedIndices(indices) ==
  IF indices = {} THEN <<>>
  ELSE LET least == CHOOSE i \in indices : \A j \in indices : i <= j
       IN <<least>> \o sortedIndices(indices \ {least})

\* lines 512-560
splitCompositeLocation(location) ==
  LET normalized == trim(newlinesToBlanks(location))
      uniqueStarts == sortedIndices(markerStarts(normalized))
  IN IF normalized = <<>> THEN <<>>
     ELSE IF Len(uniqueStarts) <= 1
     THEN LET simpleSplit == trimmedNonEmpty(splitOnBreaks(normalized, <<>>))
          IN IF Len(simpleSplit) > 1 THEN simpleSplit ELSE <<normalized>>
     ELSE LET segments == segmentsFrom(normalized, uniqueStarts, 1)
          IN IF segments # <<>> THEN segments ELSE <<normalized>>

\* normalizeCatalogLocations, line 493: the location of one catalog rule is split
SplitLocation ==
  /\ splitRun.pc = "start"
  /\ splitRun' = [splitRun EXCEPT !.pc = "done",
                                  !.segments = splitCompositeLocation(splitRun.location)]
  /\ UNCHANGED <<mainVars, pathVars, ckVars, roundTrip, settingsRun, ipcRun, detectRun, catalogRun, folderRun, mainRun, gameRows, applyRun>>

InitSplit ==
  /\ InitIdle
  /\ PathsIdle /\ ChecksumIdle /\ RoundTripIdle /\ SettingsIdle /\ IpcIdle /\ DetectIdle /\ CatalogIdle /\ FoldersIdle /\ MainIdle /\ GameRowsIdle /\ ApplyIdle
  /\ \E location \in LocationStrings :
       splitRun = [pc |-> "start", location |-> location, segments |-> <<>>]

NextSplit == SplitLocation

SpecSplit == InitSplit /\ [][NextSplit]_vars

\* ------------------------------------ backupService: the folders of a snapshot
\* buildLocationStorageFolders on the enabled locations of a game, then one
\* file of each location copied to its place in the snapshot (backupGame lines
\* 366-369). The paths end in names that are equal, differ only in case, look
\* like a name with a suffix, or are empty once made safe.
MaxFolderLocations == 3
FolderPaths ==
  { <<"d1", "/", "Saves">>,
    <<"d2", "/", "saves">>,
    <<"d3", "/", "Saves", " (2)">>,
    <<"d4", "/", "saves", " (3)">>,
    <<"d5", "/", ":">>,
    <<"d6", "/", "Folder">> }
FolderRow(id, p, type) ==
  [id |-> id, game_id |-> "g1", path |-> p, type |-> type,
   auto_detected |-> FALSE, enabled |-> TRUE]
FolderLocationIds == <<"l1", "l2", "l3", "l4">>
FolderLocationLists ==
  UNION {{[i \in 1..n |-> FolderRow(FolderLocationIds[i], paths[i], types[i])]
            : paths \in [1..n -> FolderPaths], types \in [1..n -> {"file", "folder"}]}
         : n \in 1..MaxFolderLocations}

\* backupGame line 341
FoldersBuild ==
  /\ folderRun.pc = "start"
  /\ folderRun' = [folderRun EXCEPT
                     !.pc = "copy",
                     !.folders = buildLocationStorageFolders(folderRun.locations)]
  /\ UNCHANGED <<mainVars, pathVars, ckVars, roundTrip, settingsRun, ipcRun, detectRun, catalogRun, splitRun, mainRun, gameRows, applyRun>>

\* lines 366-369 for the file `a` of the next location: destPath is
\* path.join(snapshotRoot, locationFolder, relativePath), on a volume whose
\* names are case-insensitive
FoldersCopyFile ==
  /\ folderRun.pc = "copy"
  /\ folderRun.li <= Len(folderRun.locations)
  /\ LET location == folderRun.locations[folderRun.li]
         destPath == <<FsKey(folderRun.folders[folderRun.li]), <<"a">>>>
     IN folderRun' = [folderRun EXCEPT
                        !.li = @ + 1,
                        !.copies = Append(@, [location_id |-> location.id,
                                              destPath |-> destPath])]
  /\ UNCHANGED <<mainVars, pathVars, ckVars, roundTrip, settingsRun, ipcRun, detectRun, catalogRun, splitRun, mainRun, gameRows, applyRun>>

InitFolders ==
  /\ InitIdle
  /\ PathsIdle /\ ChecksumIdle /\ RoundTripIdle /\ SettingsIdle /\ IpcIdle /\ DetectIdle /\ CatalogIdle /\ SplitIdle /\ MainIdle /\ GameRowsIdle /\ ApplyIdle
  /\ \E locations \in FolderLocationLists :
       folderRun = [pc |-> "start", locations |-> locations, folders |-> <<>>,
                    li |-> 1, copies |-> <<>>]

NextFolders == FoldersBuild \/ FoldersCopyFile

SpecFolders == InitFolders /\ [][NextFolders]_vars

\* ------------------------------------------------- vocabulary of properties
\* the positions of backupGame after the in-flight check and before its return
BackupPcs == {"list", "copy", "manifest", "retention", "removeEmpty", "rollback"}
PastInFlightCheck(t, g) == tasks[t].pc \in BackupPcs /\ tasks[t].gameId = g

\* the step in which task t calls backupGame (backup:now, or restore's safety backup)
BackupCalled(t) ==
  \/ Free(t) /\ opsStarted' = opsStarted + 1 /\ tasks'[t].op = "backup"
  \/ tasks[t].pc = "rmanifest" /\ tasks'[t].safety # "none"

GameRows(rows, g) == {r \in Range(rows) : r.game_id = g}
RowsOfSnapshot(id) == {r \in Range(snapshots) : r.id = id}
FileRowsOfSnapshot(id) == {i \in 1..Len(snapshotFiles) : snapshotFiles[i].snapshot_id = id}
Logged(g, text) == \E i \in 1..Len(eventLog[g]) : eventLog[g][i].text = text
LoggedWith(g, text, detail) ==
  \E i \in 1..Len(eventLog[g]) :
    eventLog[g][i].text = text /\ eventLog[g][i].detail = detail

\* a backup:now call that has just returned a snapshot
ReturnsSnapshot(t) ==
  tasks[t].pc = "done" /\ tasks[t].op = "backup" /\ tasks[t].result.kind = "snapshot"

\* ------------------------------------------------------------------- C1
ActiveBackups(g) == {t \in Tasks : PastInFlightCheck(t, g)}
C1_AtMostOne == \A g \in Games : Cardinality(ActiveBackups(g)) <= 1
C1_Call ==
  \A t \in Tasks :
    BackupCalled(t) =>
      LET g == tasks'[t].gameId IN
      /\ g \in inFlight =>
           /\ tasks'[t].rejected
           /\ tasks'[t].pc = "done"
           /\ tasks'[t].result =
                IF tasks'[t].op = "backup" THEN NullResult
                ELSE ThrowResult("Restore blocked")
           /\ UNCHANGED <<snapDirs, saveDisk, snapshots, snapshotFiles, status,
                          eventLog, inFlight>>
      /\ g \notin inFlight => ~tasks'[t].rejected

\* C1: at most one backupGame call per game is past the in-flight check; a
\* call made while a backup of the same game is in flight returns null in the
\* same step and leaves directories, files, index, status, event log and the
\* in-flight flag as they are; a call for a game with no backup in flight is
\* never turned away, whatever runs for other games
C1_Theorem == [][C1_AtMostOne' /\ C1_Call]_vars

C1_Witness ==
  \E t \in Tasks, u \in Tasks :
    /\ tasks[t].pc = "done" /\ tasks[t].op = "backup" /\ tasks[t].rejected
    /\ tasks[t].result = NullResult
    /\ PastInFlightCheck(u, tasks[t].gameId)

\* ------------------------------------------------------------------- C2
C2_Step ==
  /\ saveDisk' # saveDisk =>
       \E t \in Tasks :
         /\ tasks[t].op = "restore" /\ tasks[t].pc = "rcopy"
         /\ tasks[t].safety = "snapshot"
         /\ tasks'[t].written = tasks[t].written + 1
  /\ \A t \in Tasks :
       /\ (tasks[t].safety # "snapshot" /\ tasks'[t].safety = "snapshot") =>
            /\ tasks'[t].safetySnapshot \in Range(snapshots')
            /\ tasks'[t].safetySnapshot.reason = "pre-restore"
            /\ \E i \in 1..Len(snapshotFiles') :
                 snapshotFiles'[i].snapshot_id = tasks'[t].safetySnapshot.id
            /\ tasks[t].written = 0
       /\ (tasks[t].safety # "null" /\ tasks'[t].safety = "null") =>
            /\ tasks'[t].pc = "done"
            /\ tasks'[t].result = ThrowResult("Restore blocked")
            /\ tasks'[t].written = 0
            /\ saveDisk' = saveDisk

\* C2: a restore writes to a save location only after its own pre-restore
\* backupGame call has returned a snapshot whose rows were in the index when it
\* returned; when that call returns null the restore throws 'Restore blocked'
\* and writes nothing
C2_Theorem == [][C2_Step]_vars

C2_Witness ==
  \E t \in Tasks :
    /\ tasks[t].op = "restore" /\ tasks[t].written >= 1
    /\ tasks[t].safety = "snapshot"

\* ------------------------------------------------------------------- C4
C4_Kept(t, provided) ==
  LET k == tasks[t]
      before == Range(k.atCommit)
      mine == GameRows(snapshots, k.gameId)
  IN (/\ ReturnsSnapshot(t) /\ ~k.skipRetention
      /\ Cardinality(before) > retentionCount
      /\ provided) =>
       /\ mine \subseteq before
       /\ Cardinality(mine) = retentionCount
       /\ \A kept \in mine, gone \in before \ mine : kept.created_at >= gone.created_at

\* a row leaves the index only through a delete of that row, and a retention
\* delete takes rows of the game of its own backup only
C4_OthersUntouched ==
  \A r \in Range(snapshots) \ Range(snapshots') :
    \E t \in Tasks :
      /\ tasks[t].delTarget.id = r.id
      /\ \/ tasks[t].pc = "dremove"
         \/ tasks[t].pc = "retention" /\ tasks[t].gameId = r.game_id

Quiet(g) == \A t \in Tasks : Free(t) \/ tasks[t].gameId # g

C5_AtReturn ==
  \A t \in Tasks :
    (ReturnsSnapshot(t) /\ ~tasks[t].skipRetention) =>
      LET n == Cardinality(GameRows(snapshots, tasks[t].gameId)) IN
      /\ n <= retentionCount
      /\ tasks[t].others = {} => n >= 1
      /\ (tasks[t].others = {} /\ retentionCount = 1) => n = 1

\* the pre-restore backup returns with its row added and nothing removed
C5_SafetyKeepsAll ==
  \A t \in Tasks :
    (tasks[t].safety # "snapshot" /\ tasks'[t].safety = "snapshot") =>
      snapshots' = Append(snapshots, tasks'[t].safetySnapshot)

VerifiesClean(id) == verifySnapshot(snapshots, snapshotFiles, snapDirs, id) = VerifyResult(0)

\* C6 as stated: right after a backupGame call has returned a snapshot,
\* verifySnapshot of that snapshot gives ok with no issues
C6_Original ==
  \A t \in Tasks : ReturnsSnapshot(t) => VerifiesClean(tasks[t].result.snapshot.id)

\* the step in which backupGame returns a snapshot to task t, and that snapshot
BackupReturns(t) ==
  \/ tasks[t].pc \in BackupPcs /\ tasks[t].op = "backup" /\ tasks'[t].pc = "done"
       /\ tasks'[t].result.kind = "snapshot"
  \/ tasks[t].safety # "snapshot" /\ tasks'[t].safety = "snapshot"
Returned(k) == IF k.op = "backup" THEN k.result.snapshot ELSE k.safetySnapshot

C6_Clean(t) ==
  Returned(tasks[t]) \in Range(snapshots) => VerifiesClean(Returned(tasks[t]).id)

\* what does hold: the same for a returned snapshot whose row is still in the
\* index when the call returns
C6_Weaker == [][\A t \in Tasks : BackupReturns(t) => C6_Clean(t)']_vars

\* ------------------------------------------------------------------- C7
\* the file rows of a snapshot whose file is not where the manifest of the
\* snapshot directory puts it, or is there with another hash
BadRows(id) ==
  LET snap == FindSnapshot(snapshots, id)
      dir == snapDirs[snap.storage_path]
      Place(row) ==
        LET hits == {j \in 1..Len(dir.manifest.locations) :
                       dir.manifest.locations[j].id = row.location_id}
        IN <<FsKey(dir.manifest.locations[CHOOSE j \in hits : TRUE].storage_folder),
             row.relative_path>>
  IN {i \in FileRowsOfSnapshot(id) :
        \/ Place(snapshotFiles[i]) \notin DOMAIN dir.files
        \/ hashFile(dir.files[Place(snapshotFiles[i])]) # snapshotFiles[i].checksum}

Verified(t) ==
  /\ tasks[t].op = "verify" /\ tasks[t].pc = "done"
  /\ tasks[t].result.kind \in {"ok", "issues"}

C7_Result ==
  \A t \in Tasks :
    Verified(t) =>
      /\ tasks[t].result.issues = Cardinality(BadRows(tasks[t].snapshotId))
      /\ tasks[t].result.kind = "ok" <=> tasks[t].result.issues = 0

C7_ReadOnly ==
  \A t \in Tasks :
    (tasks'[t].op = "verify" /\ tasks'[t] # tasks[t]) =>
      UNCHANGED <<snapshots, snapshotFiles, snapDirs, saveDisk, status, eventLog,
                  saveLocations, inFlight>>

\* C7: the issues verifySnapshot returns are the number of file rows of the
\* snapshot whose file is missing from the snapshot directory or hashes to
\* something else than the recorded checksum, ok is returned exactly for 0
\* issues, and the step changes neither the index nor any file
C7_Theorem == [][C7_Result' /\ C7_ReadOnly]_vars

C7_Witness ==
  \E t \in Tasks :
    /\ Verified(t) /\ tasks[t].result.kind = "issues"
    /\ tasks[t].result.issues >= 1

\* ------------------------------------------------------------------- C9
BuildFailures == {"copy failed", "stat failed", "hash failed", "manifest write failed"}

\* a backupGame call that has settled after a copy, stat, hash or manifest failure
FailedBuild(t) == tasks[t].pc = "done" /\ tasks[t].error \in BuildFailures

C9_Cleanup(t) ==
  LET k == tasks[t] IN
  /\ k.result.kind = "throw"
  /\ RowsOfSnapshot(k.snapshotId) = {}
  /\ FileRowsOfSnapshot(k.snapshotId) = {}
  /\ status[k.gameId] = "warning"
  /\ LoggedWith(k.gameId, "Backup failed", k.error)

\* C9 as stated: after a copy, stat, hash or manifest failure the call throws
\* that very error, no row of the attempted snapshot is in the index, the game
\* is in status warning and a 'Backup failed' event with the error is logged
C9_Original ==
  \A t \in Tasks :
    FailedBuild(t) => C9_Cleanup(t) /\ tasks[t].result = ThrowResult(tasks[t].error)

\* what does hold: everything but the identity of the thrown error
C9_Weaker == \A t \in Tasks : FailedBuild(t) => C9_Cleanup(t)

\* ------------------------------------------------------------------ C10
ReturnedNull(k) ==
  IF k.op = "backup" THEN k.result = NullResult
  ELSE k.safety = "null" /\ k.result = ThrowResult("Restore blocked")

NoRowsOf(id) == RowsOfSnapshot(id) = {} /\ FileRowsOfSnapshot(id) = {}

SkipText(skipped) ==
  IF skipped = "no-locations" THEN "Backup skipped: no enabled save locations."
  ELSE "Backup skipped: no files found in enabled save locations."

\* a snapshot is returned only with at least one recorded file
C10_OnlyWithFiles ==
  \A t \in Tasks :
    (tasks[t].committed \/ tasks[t].safety = "snapshot"
       \/ (tasks[t].pc = "done" /\ tasks[t].result.kind = "snapshot")) =>
      tasks[t].nFiles >= 1

\* C10 as stated: a call that finds no enabled location or no file returns
\* null, adds no row, has logged the 'Backup skipped' event, and in the
\* zero-files case the snapshot directory is gone
C10_Original ==
  /\ C10_OnlyWithFiles
  /\ \A t \in Tasks :
       (tasks[t].pc = "done" /\ tasks[t].skipped # "none") =>
         /\ ReturnedNull(tasks[t])
         /\ NoRowsOf(tasks[t].snapshotId)
         /\ Logged(tasks[t].gameId, SkipText(tasks[t].skipped))
         /\ tasks[t].skipped = "no-files" =>
              tasks[t].snapshotRoot \notin DOMAIN snapDirs

\* C10: a snapshot is returned only with at least one recorded file; a call
\* that finds no enabled location returns null; a call that finds no file
\* logs 'Backup skipped', then has the snapshot directory removed and returns
\* null, or, when that removal fails, logs 'Backup failed' and throws; in all
\* these cases no row is added
C10_Theorem ==
  /\ C10_OnlyWithFiles
  /\ \A t \in Tasks :
       (tasks[t].pc = "done" /\ tasks[t].skipped # "none") =>
         LET k == tasks[t] IN
         /\ NoRowsOf(k.snapshotId)
         /\ Logged(k.gameId, SkipText(k.skipped))
         /\ k.skipped = "no-locations" => ReturnedNull(k)
         /\ k.skipped = "no-files" =>
              \/ ReturnedNull(k) /\ k.snapshotRoot \notin DOMAIN snapDirs
              \/ /\ k.error = "remove failed"
                 /\ k.result.kind = "throw"
                 /\ LoggedWith(k.gameId, "Backup failed", "remove failed")
                 /\ status[k.gameId] = "warning"
  /\ \A t \in Tasks :
       tasks[t].pc = "removeEmpty" =>
         /\ tasks[t].snapshotRoot \in DOMAIN snapDirs
         /\ Logged(tasks[t].gameId, SkipText("no-files"))

C10_Witness ==
  \E t \in Tasks :
    /\ tasks[t].pc = "done" /\ tasks[t].op = "backup"
    /\ tasks[t].skipped = "no-files"
    /\ tasks[t].result = NullResult
    /\ tasks[t].snapshotRoot \notin DOMAIN snapDirs

\* ------------------------------------------------------------------- C3
\* the directories a path leads through, after "." and ".." are resolved
Directories(p, platform) ==
  LET segs == Collapse(SplitPath(IF isAbsolute(p) THEN p ELSE Cwd \o <<Sep>> \o p),
                       <<>>, TRUE)
  IN IF platform = "win32" THEN [i \in 1..Len(segs) |-> toLowerCase(segs[i])] ELSE segs

\* target is root or lies below it: root's directories lead to it
Contained(root, target, platform) ==
  LET above == Directories(root, platform)
      all == Directories(target, platform)
  IN Len(above) <= Len(all) /\ SubSeq(all, 1, Len(above)) = above

SourceTarget == pathResolve(<<pathIn.root, pathIn.folder, pathIn.rel>>)
DestTarget == pathResolve(<<destRootOf(pathIn.location), pathIn.rel>>)
SourceRejected == pathLog.result = "Snapshot file path resolves outside its allowed root."
DestRejected ==
  pathLog.result = "Restore destination path resolves outside its allowed root."

\* C3: every path verifySnapshot or restoreSnapshot reads lies in the
\* snapshot's storage_path and every path restoreSnapshot writes lies in the
\* destination root of its location; a source outside the storage_path ends
\* the operation with '... resolves outside its allowed root.' before anything
\* is read, a destination outside its root ends it before anything is written
C3_Theorem ==
  /\ \A p \in pathLog.reads : Contained(pathIn.root, p, pathIn.platform)
  /\ \A p \in pathLog.writes :
       Contained(destRootOf(pathIn.location), p, pathIn.platform)
  /\ pathLog.reads \subseteq {SourceTarget}
  /\ pathLog.writes \subseteq {DestTarget}
  /\ (/\ pathLog.pc # "start"
      /\ Len(trim(pathIn.folder)) > 0
      /\ ~Contained(pathIn.root, SourceTarget, pathIn.platform)) =>
       SourceRejected /\ pathLog.reads = {} /\ pathLog.writes = {}
  /\ (/\ pathLog.pc \in {"copy", "done"}
      /\ pathLog.reads # {} /\ pathLog.result # "file missing"
      /\ pathIn.op = "restore"
      /\ ~Contained(destRootOf(pathIn.location), DestTarget, pathIn.platform)) =>
       DestRejected /\ pathLog.writes = {}

\* the sibling of the root, root + 'x', is turned away
C3_Witness ==
  /\ pathLog.pc = "done" /\ SourceRejected
  /\ pathIn.root = <<"/", "r", "/", "s">>
  /\ SourceTarget = <<"/", "r", "/", "s", "x", "/", "a">>
  /\ pathLog.reads = {}

\* ------------------------------------------------------------------- C8
\* C8 as stated: the checksum computed from a list of file rows is the
\* checksum of every other ordering of the same rows
C8_Original == ckOut.done => ckOut.value = computeSnapshotChecksum(ckIn)

\* what does hold: the rows of one location give the same checksum in any order
C8_Weaker ==
  (ckOut.done /\ \A i \in DOMAIN ckIn, j \in DOMAIN ckIn :
                   ckIn[i].location_id = ckIn[j].location_id) =>
    ckOut.value = computeSnapshotChecksum(ckIn)

\* ------------------------------------------------------------------ C11
\* task t is at the `await removeDirSafe(snapshot.storage_path)` of a
\* deleteSnapshot call (snapshot:remove or retention) and this step settles it
DeleteSettles(t) ==
  /\ tasks[t].pc \in {"dremove", "retention"}
  /\ tasks'[t].pc # tasks[t].pc \/ tasks'[t].toRemove # tasks[t].toRemove

DeleteFails(t) == DeleteSettles(t) /\ faults' = faults + 1
DeleteSucceeds(t) == DeleteSettles(t) /\ faults' = faults

C11_Failure ==
  \A t \in Tasks :
    DeleteFails(t) =>
      /\ UNCHANGED <<snapshots, snapshotFiles, snapDirs>>
      /\ tasks[t].pc = "dremove" => tasks'[t].result = ThrowResult("remove failed")
      /\ tasks[t].pc = "retention" => tasks'[t].error = "remove failed"

C11_Success ==
  \A t \in Tasks :
    DeleteSucceeds(t) =>
      LET row == tasks[t].delTarget IN
      /\ snapshots' = SelectSeq(snapshots, LAMBDA r : r.id # row.id)
      /\ snapshotFiles' = SelectSeq(snapshotFiles, LAMBDA f : f.snapshot_id # row.id)
      /\ row.storage_path \notin DOMAIN snapDirs'

C11_OnlyThen ==
  /\ \A r \in Range(snapshots) \ Range(snapshots') :
       \E t \in Tasks : DeleteSucceeds(t) /\ tasks[t].delTarget.id = r.id
  /\ \A f \in Range(snapshotFiles) \ Range(snapshotFiles') :
       \E t \in Tasks : DeleteSucceeds(t) /\ tasks[t].delTarget.id = f.snapshot_id

\* C11: when the removal of the snapshot directory fails, deleteSnapshot
\* throws that error and the step changes no snapshot row, no file row and no
\* snapshot directory; when it succeeds the snapshot row and every file row
\* with its snapshot_id are dropped and the directory is gone; rows leave
\* the index in no other step
C11_Theorem == [][C11_Failure /\ C11_Success /\ C11_OnlyThen]_vars

\* a snapshot:remove that threw, with the row and its file rows still indexed
C11_Witness ==
  \E t \in Tasks :
    /\ tasks[t].pc = "done" /\ tasks[t].op = "delete"
    /\ tasks[t].result = ThrowResult("remove failed")
    /\ RowsOfSnapshot(tasks[t].delTarget.id) # {}
    /\ FileRowsOfSnapshot(tasks[t].delTarget.id) # {}
    /\ tasks[t].delTarget.storage_path \in DOMAIN snapDirs

\* ------------------------------------------------------------------ C12
\* the manifest file of a directory is missing, is not version 2, lacks
\* snapshot_id, created_at, reason or locations, or its created_at is no date
ManifestDefect(dirs, root) ==
  \/ root \notin DOMAIN dirs
  \/ dirs[root].manifest = NoManifest
  \/ LET doc == dirs[root].manifest IN
     \/ "version" \notin doc.fields \/ doc.version # 2
     \/ {"snapshot_id", "created_at", "reason", "locations"} \ doc.fields # {}
     \/ doc.created_at < 0

ManifestError == ThrowResult("Snapshot manifest is missing or invalid.")

C12_Verify ==
  \A t \in Tasks :
    (/\ tasks'[t].op = "verify" /\ tasks'[t] # tasks[t]
     /\ RowsOfSnapshot(tasks'[t].snapshotId) # {}
     /\ \A r \in RowsOfSnapshot(tasks'[t].snapshotId) :
          ManifestDefect(snapDirs, r.storage_path)) =>
      tasks'[t].result = ManifestError

C12_Restore ==
  \A t \in Tasks :
    (/\ tasks[t].pc = "rmanifest" /\ tasks'[t].pc # "rmanifest"
     /\ ManifestDefect(snapDirs, tasks[t].rSnapshot.storage_path)) =>
      /\ tasks'[t].pc = "done" /\ tasks'[t].result = ManifestError
      /\ tasks'[t].safety = "none" /\ tasks'[t].written = 0
      /\ UNCHANGED <<snapshots, snapshotFiles, snapDirs, saveDisk, inFlight, nextUuid>>

\* C12: verifySnapshot and restoreSnapshot of an indexed snapshot whose
\* manifest is missing, not version 2, without snapshot_id, created_at, reason
\* or locations, or with a created_at that is no date, throw 'Snapshot
\* manifest is missing or invalid.'; restoreSnapshot throws it before its
\* pre-restore backup is called: no snapshot directory, no row and no save
\* file is written
C12_Theorem == [][C12_Verify /\ C12_Restore]_vars

\* a restore turned away by a manifest whose created_at is no date
C12_Witness ==
  \E t \in Tasks :
    /\ tasks[t].pc = "done" /\ tasks[t].op = "restore"
    /\ tasks[t].result = ManifestError
    /\ tasks[t].rSnapshot.storage_path \in DOMAIN snapDirs
    /\ snapDirs[tasks[t].rSnapshot.storage_path].manifest # NoManifest
    /\ snapDirs[tasks[t].rSnapshot.storage_path].manifest.created_at < 0
    /\ Cardinality(RowsOfSnapshot(tasks[t].rSnapshot.id)) = Len(snapshots)

\* ------------------------------------------------------------------ C13
\* task t runs scanSnapshotsFromDisk in this step, on an emptied index
ScansEmptied(t) ==
  /\ tasks'[t].op = "scan" /\ opsStarted' = opsStarted + 1 /\ Free(t)
  /\ \A u \in Tasks : u < t => ~Free(u)
  /\ lostIndex.lost /\ DOMAIN status = {} /\ snapshots = <<>>

\* the snapshot directories: those a backup has written its manifest into
SnapshotDirs == {root \in DOMAIN snapDirs : snapDirs[root].manifest # NoManifest}

MetadataIntact(gameFolder) == MetadataFields \subseteq gameFolders[gameFolder].fields

FileValues(rows, id) ==
  {<<f.location_id, f.relative_path, f.size_bytes, f.checksum>> :
     f \in {x \in Range(rows) : x.snapshot_id = id}}

C13_Step(t) ==
  \A root \in SnapshotDirs :
    MetadataIntact(root[1]) =>
      /\ root[1] \in DOMAIN status' /\ status'[root[1]] = "warning"
      /\ Cardinality({i \in 1..Len(snapshots') : snapshots'[i].storage_path = root}) = 1
      /\ \A old \in Range(lostIndex.snapshots) :
           old.storage_path = root =>
             \E new \in Range(snapshots') :
               /\ new.storage_path = root /\ new.game_id = old.game_id
               /\ FileValues(snapshotFiles', new.id) =
                    FileValues(lostIndex.snapshotFiles, old.id)
               /\ Cardinality({i \in 1..Len(snapshotFiles') :
                                 snapshotFiles'[i].snapshot_id = new.id})
                    = Cardinality({i \in 1..Len(lostIndex.snapshotFiles) :
                                     lostIndex.snapshotFiles[i].snapshot_id = old.id})

\* C13: a scan of the storage root after the index was emptied puts into the
\* index, for every snapshot directory of a game folder whose metadata.json
\* is intact, the game under its id with status 'warning' and exactly one
\* snapshot row of this directory, with as many file rows as were persisted
\* for it and the same (location_id, relative_path, size_bytes, checksum)
C13_Theorem == [][\A t \in Tasks : ScansEmptied(t) => C13_Step(t)]_vars

\* a scan has brought back two snapshots of one game
C13_Witness ==
  \E t \in Tasks :
    /\ tasks[t].pc = "done" /\ tasks[t].op = "scan"
    /\ tasks[t].result.scan.added = 2
    /\ lostIndex.lost /\ Len(lostIndex.snapshots) = 2
    /\ Len(snapshots) = 2 /\ snapshots[1].game_id = snapshots[2].game_id
    /\ status[snapshots[1].game_id] = "warning"

\* ------------------------------------------------------------------ C14
FilePairs(id) ==
  {<<f.relative_path, f.checksum>> : f \in {x \in Range(snapshotFiles) : x.snapshot_id = id}}

\* task t is the backup after the restore of s1 and has committed its
\* snapshot; the rows of s1 are still indexed
SecondBackup(t, s1) ==
  /\ tasks[t].op = "backup" /\ tasks[t].committed
  /\ opsStarted = 3
  /\ Logged(tasks[t].gameId, "Snapshot restored")
  /\ s1.game_id = tasks[t].gameId /\ s1.reason = "manual"
  /\ s1.id # tasks[t].snapshot.id
  /\ RowsOfSnapshot(tasks[t].snapshot.id) # {}

\* C14: after a backup (S1), the restore of S1 and a second backup (S2) of a
\* game whose locations are enabled and present, run one after the other
\* with nothing else changing the save files, the file rows of S2 have the
\* same set of (relative_path, checksum) as those of S1
C14_Theorem ==
  \A t \in Tasks : \A s1 \in Range(snapshots) :
    SecondBackup(t, s1) => FilePairs(tasks[t].snapshot.id) = FilePairs(s1.id)

\* the second backup has committed three file rows, S1 still indexed
C14_Witness ==
  \E t \in Tasks : \E s1 \in Range(snapshots) :
    /\ SecondBackup(t, s1)
    /\ Cardinality(FileRowsOfSnapshot(tasks[t].snapshot.id)) = 3
    /\ Cardinality(FileRowsOfSnapshot(s1.id)) = 3

\* ------------------------------------------------------------------- C15
\* the call of updateSettings has thrown 'Failed to migrate storage root ...'
MigrationFailed ==
  settingsRun.pc = "idle" /\ settingsRun.result = MigrateError
SettingsKept ==
  /\ settingsRun.cached = settingsRun.before.cached
  /\ settingsRun.persisted = settingsRun.before.persisted
OldRootIntact ==
  /\ settingsRun.roots[settingsRun.source].present
  /\ settingsRun.before.files \subseteq settingsRun.roots[settingsRun.source].files

\* C15 as stated: when the migration of storageRoot fails (the copy or the
\* removal of the source, after the rename failed), the cached and the
\* persisted settings hold the previous storageRoot and every file of the old
\* storage root is still there. The removal can fail after it removed entries.
C15_Original == MigrationFailed => SettingsKept /\ OldRootIntact

\* what the code keeps: the settings are unchanged; the old root is intact when
\* the copy failed, and when the removal failed the new root holds every file
C15_Weaker ==
  MigrationFailed =>
    /\ SettingsKept
    /\ settingsRun.failedAt \in {"cp", "rm"}
    /\ settingsRun.failedAt = "cp" => OldRootIntact
    /\ settingsRun.failedAt = "rm" =>
         settingsRun.before.files \subseteq settingsRun.roots[settingsRun.destination].files

\* ------------------------------------------------------------------- C16
LibraryState(run) == <<run.index, run.disk, run.dataRoot, run.recoveryMode, run.db>>
\* a request is handled while the application is in recovery mode
HandledInRecovery == ipcRun.recoveryMode /\ ipcRun'.requests = ipcRun.requests + 1
RejectedUnread ==
  /\ ipcRun'.result = RECOVERY_MODE_BLOCK_MESSAGE
  /\ ~ipcRun'.parsed
  /\ LibraryState(ipcRun') = LibraryState(ipcRun)

\* C16: in recovery mode every games:*, savelocations:*, backup:*,
\* restore:snapshot and snapshot:* request is rejected with the recovery-mode
\* error before its payload is parsed and without a change of the index, the
\* settings or the disk; settings:update is not rejected that way (its payload
\* is parsed), and it is the only request that changes any of them.
C16_Theorem ==
  [][HandledInRecovery =>
       /\ ipcRun'.channel \in LibraryChannels => RejectedUnread
       /\ ipcRun'.channel = "settings:update" =>
            ipcRun'.parsed /\ ipcRun'.result # RECOVERY_MODE_BLOCK_MESSAGE
       /\ LibraryState(ipcRun') # LibraryState(ipcRun) =>
            ipcRun'.channel = "settings:update"]_vars

\* in recovery mode a restore:snapshot request has been rejected with the
\* recovery-mode error, its payload unread
C16_Witness ==
  /\ ipcRun.recoveryMode
  /\ ipcRun.requests >= 1
  /\ ipcRun.channel = "restore:snapshot"
  /\ ipcRun.result = RECOVERY_MODE_BLOCK_MESSAGE
  /\ ~ipcRun.parsed

\* ------------------------------------------------------------------- C17
\* C17 as stated: restore writes no file into a save location that is disabled
\* or removed from the index at the time of the write, whatever toggle and
\* remove requests run while restoreSnapshot awaits. restoreSnapshot reads the
\* rows once, before its first await, and copies by that reading.
C17_Original == \A t \in Tasks : tasks[t].stray = 0

\* ------------------------------------------------------------------- C18
NoOperationInProgress == \A t \in Tasks : Free(t)
\* the directory of the row exists and holds a valid version-2 manifest that
\* lists every location its file rows name
SnapshotRowBacked(row) ==
  /\ row.storage_path \in DOMAIN snapDirs
  /\ LET manifest == readSnapshotManifest(snapDirs, row.storage_path)
     IN /\ manifest # NoManifest
        /\ manifest.version = 2
        /\ \A f \in Range(snapshotFiles) :
             f.snapshot_id = row.id =>
               \E i \in 1..Len(manifest.locations) :
                 manifest.locations[i].id = f.location_id

\* C18 as stated: whenever no operation is in progress, also after operations
\* that failed, every snapshot row's storage_path is an existing directory with
\* a valid version-2 manifest listing every location_id of its file rows. A
\* backup whose retention step fails removes the directory of the snapshot it
\* has already committed.
C18_Original ==
  NoOperationInProgress => \A row \in Range(snapshots) : SnapshotRowBacked(row)

\* ------------------------------------------------------------------- C19
\* the locations of a manifest as a map: location id -> entry
LocationsMap(locations) ==
  [id \in {locations[i].id : i \in 1..Len(locations)} |->
     LET entry == CHOOSE e \in Range(locations) : e.id = id
     IN [path |-> entry.path, type |-> entry.type,
         auto_detected |-> entry.auto_detected, enabled |-> entry.enabled,
         storage_folder |-> entry.storage_folder]]

TitleRanked ==
  /\ detectRun.pc \in {"libraries", "resolve", "done"}
  /\ detectRun.status \notin {"catalog-missing", "catalog-invalid", "rejected"}
BestScore == rankEntries(detectRun.entries)[1].score
Accepted ==
  /\ detectRun.status # "no-match"
  /\ detectRun.matchedTitle = rankEntries(detectRun.entries)[1].entry.title
  /\ detectRun.matchScore = BestScore

\* C20 as stated: a best score of exactly 0.45 is rejected with 'no-match',
\* one of 0.46 is accepted. The code rejects with `best.score < 0.45`.
C20_Original ==
  TitleRanked =>
    /\ BestScore = MatchThreshold => detectRun.status = "no-match"
    /\ BestScore = MatchThreshold + 1 => Accepted

\* C20, amended: a best score below 0.45 is rejected with 'no-match'; a best
\* score of exactly 0.45, like one of 0.46, is accepted and the detection goes
\* on to the Windows locations of the matched title.
C20_Theorem ==
  TitleRanked =>
    /\ BestScore < MatchThreshold =>
         detectRun.status = "no-match" /\ detectRun.pc = "done"
    /\ BestScore >= MatchThreshold => Accepted

\* the best title scored exactly 0.45 and the detection ended 'matched'
C20_Witness ==
  /\ TitleRanked
  /\ BestScore = MatchThreshold
  /\ detectRun.pc = "done"
  /\ detectRun.status = "matched"

\* ------------------------------------------------------------------- C21
RunnerUpExists == Len(detectRun.entries) >= 2
RunnerUpScore == rankEntries(detectRun.entries)[2].score
TopTitle == rankEntries(detectRun.entries)[1].entry.title
CloseRunnerUp ==
  /\ RunnerUpExists
  /\ RunnerUpScore >= AmbiguousThreshold
  /\ BestScore - RunnerUpScore <= AmbiguousMargin

\* C21: once the titles are ranked, titleAmbiguous is true exactly when a
\* runner-up exists, scores at least 0.65 and is at most 0.05 below the top
\* score (0.90 / 0.86 is ambiguous, 0.90 / 0.84 is not); exactly one
\* 'Ambiguous title match' warning is added when it is true and none
\* otherwise, and the detection goes on with the top entry: its title is the
\* matched title and the call ends with one of the later outcomes.
C21_Theorem ==
  TitleRanked =>
    /\ detectRun.titleAmbiguous <=> CloseRunnerUp
    /\ (RunnerUpExists /\ BestScore = 90 /\ RunnerUpScore = 86) =>
         detectRun.titleAmbiguous
    /\ (RunnerUpExists /\ BestScore = 90 /\ RunnerUpScore = 84) =>
         ~detectRun.titleAmbiguous
    /\ detectRun.warnings = IF detectRun.titleAmbiguous THEN 1 ELSE 0
    /\ detectRun.titleAmbiguous =>
         /\ detectRun.matchedTitle = TopTitle
         /\ detectRun.matchScore = BestScore
         /\ detectRun.pc = "done" =>
              detectRun.status \in {"no-windows-locations", "no-valid-candidates",
                                    "matched"}

\* top 0.90 and runner-up 0.86: flagged, warned once, and matched all the same
C21_Witness ==
  /\ TitleRanked
  /\ RunnerUpExists
  /\ BestScore = 90
  /\ RunnerUpScore = 86
  /\ detectRun.titleAmbiguous
  /\ detectRun.warnings = 1
  /\ detectRun.pc = "done"
  /\ detectRun.status = "matched"
  /\ detectRun.matchedTitle = TopTitle

\* ------------------------------------------------------------------- C22
\* the events delivered to onProgress so far
Events == detectRun.events
\* the call returned a result after resolving its Windows locations
ResolvedAndReturned ==
  /\ detectRun.pc = "done"
  /\ detectRun.status \in {"matched", "no-valid-candidates"}
EventsOfTotal(n) == SelectSeq(Events, LAMBDA event : event.total = n)

\* C22: the percents delivered to onProgress never decrease and lie in
\* 0..100; every event has 0 <= processed <= total; in the events whose total
\* is the number n of Windows locations processed starts at 0 and never
\* decreases, and when the result is returned after the resolution the last
\* of them has processed = n.
C22_Theorem ==
  /\ \A i \in 1..Len(Events) :
       /\ Events[i].percent \in 0..100
       /\ 0 <= Events[i].processed
       /\ Events[i].processed <= Events[i].total
       /\ i > 1 => Events[i - 1].percent <= Events[i].percent
  /\ detectRun.pc \in {"resolve", "done"} /\ detectRun.windowsLocations # <<>> =>
       LET n == Len(detectRun.windowsLocations)
           ofTotal == EventsOfTotal(n)
       IN /\ \A i \in 1..Len(ofTotal) :
               /\ ofTotal[i].processed \in 0..n
               /\ i = 1 => ofTotal[i].processed = 0
               /\ i > 1 => ofTotal[i - 1].processed <= ofTotal[i].processed
          /\ ResolvedAndReturned /\ detectRun.callback # "none" =>
               /\ \A k \in 0..n : \E i \in 1..Len(ofTotal) : ofTotal[i].processed = k
               /\ ofTotal[Len(ofTotal)].processed = n

\* two Windows locations resolved with a callback: eight events, the last
\* one 95 percent with processed = total = 2
C22_Witness ==
  /\ ResolvedAndReturned
  /\ detectRun.status = "matched"
  /\ Len(detectRun.windowsLocations) = 2
  /\ Len(Events) = 8
  /\ Events[5].percent = 55
  /\ Events[8] = [percent |-> 95, processed |-> 2, total |-> 2]

\* ------------------------------------------------------------------- C23
DetectionStatuses ==
  {"catalog-missing", "catalog-invalid", "no-match", "no-windows-locations",
   "no-valid-candidates", "matched"}

\* C23 as stated: whatever the onProgress callback does, a finished call of
\* detectCatalogSavePaths has returned a result. reportProgress calls the
\* callback outside any try, so what the callback throws rejects the call.
C23_Original ==
  detectRun.pc = "done" => detectRun.status \in DetectionStatuses

\* ------------------------------------------------------------------- C24
\* the file holds a JSON array of items, bare or under `games`, with at least
\* one well-formed entry, and has been loaded
CatalogWithEntriesLoaded ==
  /\ catalogRun.pc = "loaded"
  /\ catalogRun.file.exists
  /\ catalogRun.file.shape \in {"array", "games"}
  /\ catalogEntriesOf(catalogRun.file.items) # <<>>

\* C24 as stated: a catalog whose root is a bare array and one whose root is
\* an object with a `games` array load to the same non-empty list, the
\* entries of the array, and the detection does not end 'catalog-invalid'.
\* getCatalogGamesArray returns null for a root that is an array.
C24_Original ==
  CatalogWithEntriesLoaded =>
    /\ catalogRun.result = Entries(catalogEntriesOf(catalogRun.file.items))
    /\ catalogRun.status # "catalog-invalid"

\* ------------------------------------------------------------------- C25
\* task t takes the step, entering backupGame or inside it
InBackupStep(t) ==
  /\ tasks'[t] # tasks[t]
  /\ tasks[t].pc \in BackupPcs \/ tasks'[t].pc \in BackupPcs
\* the rows of the index stay, and so do the directories they point to, the
\* one the call of task t made for itself apart
RowsAndDirectoriesStay(t) ==
  /\ \A r \in Range(snapshots) : r \in Range(snapshots')
  /\ \A i \in 1..Len(snapshotFiles) :
       \E j \in 1..Len(snapshotFiles') : snapshotFiles'[j] = snapshotFiles[i]
  /\ \A r \in Range(snapshots) :
       r.storage_path \in DOMAIN snapDirs /\ r.storage_path # tasks[t].snapshotRoot =>
         r.storage_path \in DOMAIN snapDirs'
C25_Step ==
  \A t \in Tasks :
    InBackupStep(t) =>
      \* the directory the call makes for the new snapshot was none before
      /\ (tasks[t].pc \notin BackupPcs /\ tasks'[t].pc \in BackupPcs) =>
           tasks'[t].snapshotRoot \notin DOMAIN snapDirs
      \* the commit: manifest on disk, snapshot row and file rows in the index
      /\ (~tasks[t].committed /\ tasks'[t].committed) =>
           /\ tasks[t].pc = "manifest"
           /\ tasks[t].snapshotRoot \in DOMAIN snapDirs'
           /\ snapDirs'[tasks[t].snapshotRoot].manifest =
                ManifestPayload(tasks[t].snapshot, tasks[t].locations, tasks[t].folders)
           /\ tasks[t].snapshot \in Range(snapshots) \cup Range(snapshots')
           /\ tasks[t].snapshot \in Range(tasks'[t].atCommit)
           /\ \A i \in 1..Len(tasks[t].snapshotFiles) :
                \E j \in 1..Len(snapshotFiles) + Len(tasks[t].snapshotFiles) :
                  j <= Len(snapshotFiles') /\ snapshotFiles'[j] = tasks[t].snapshotFiles[i]
      \* a deletion of retention comes after the commit
      /\ tasks[t].pc = "retention" => tasks[t].committed
      \* before the commit, and in the step of the commit itself unless
      \* retention starts there, nothing that exists is deleted
      /\ ~RowsAndDirectoriesStay(t) =>
           /\ tasks[t].committed
           /\ tasks[t].pc = "retention"

\* C25: within one backupGame call a deletion of retention happens only after
\* the manifest of the new snapshot is written and its snapshot row and file
\* rows are in the index; a call that returns null or fails before that
\* commit removes no snapshot row, no file row and no directory of a
\* snapshot row other than the directory it made for itself.
C25_Theorem == [][C25_Step]_vars

\* retention has removed the oldest snapshot of a game after the commit of a
\* new one
C25_Witness ==
  \E t \in Tasks :
    /\ tasks[t].op = "backup" /\ tasks[t].pc = "done"
    /\ tasks[t].committed
    /\ tasks[t].result.kind = "snapshot"
    /\ tasks[t].delTarget # NoSnapshot
    /\ tasks[t].delTarget \notin Range(snapshots)
    /\ tasks[t].delTarget.storage_path \notin DOMAIN snapDirs
    /\ tasks[t].snapshot \in Range(snapshots)

\* ------------------------------------------------------------------- C26
SnapshotCreatedEvents(log) ==
  Len(SelectSeq(log, LAMBDA event : event.type = "backup" /\ event.text = "Snapshot created"))
\* the step in which the backupGame call of task t settles, the calls the
\* in-flight check rejected and those for a game that does not exist apart
BackupSettles(t) ==
  /\ tasks[t].pc # "done" /\ tasks'[t].pc = "done"
  /\ tasks'[t].op = "backup"
  /\ ~tasks'[t].rejected
  /\ tasks'[t].gameId \in DOMAIN status'
C26_Step ==
  /\ \A t \in Tasks :
       BackupSettles(t) =>
         LET k == tasks'[t]
             g == k.gameId
             created == k.result.kind = "snapshot"
         IN /\ status'[g] = "protected" <=> (created /\ k.warnings = 0)
            /\ status'[g] # "protected" => status'[g] = "warning"
            /\ k.warnings > 0 => status'[g] = "warning"
            /\ k.skipped \in {"no-locations", "no-files"} => status'[g] = "warning"
            /\ k.result.kind = "throw" => status'[g] = "warning"
            /\ created =>
                 /\ eventLog'[g] = Append(eventLog[g],
                                          [type |-> "backup", text |-> "Snapshot created",
                                           detail |-> k.reason])
                 /\ tasks[t].pc \in {"manifest", "retention"}
                 /\ \A id \in Range(tasks[t].toRemove) :
                      FindSnapshot(snapshots', id) = NoSnapshot
            /\ ~created =>
                 SnapshotCreatedEvents(eventLog'[g]) = SnapshotCreatedEvents(eventLog[g])
  \* the event is logged by nothing but a backupGame call that returns
  /\ \A g \in Games :
       SnapshotCreatedEvents(eventLog'[g]) # SnapshotCreatedEvents(eventLog[g]) =>
         /\ SnapshotCreatedEvents(eventLog'[g]) = SnapshotCreatedEvents(eventLog[g]) + 1
         /\ \E t \in Tasks :
              /\ tasks[t].pc \in {"manifest", "retention"} /\ tasks[t].gameId = g
              /\ tasks'[t].result.kind = "snapshot" \/ tasks'[t].safety = "snapshot"

\* C26: when a backupGame call the in-flight check let through settles, the
\* status of the game is 'protected' exactly when the call returned a snapshot
\* and met no missing location, and 'warning' otherwise: a location was
\* missing, no location was enabled, no file was found, or the call threw. A
\* call that returns a snapshot logs one 'Snapshot created' backup event with
\* its reason, in the step in which it returns, when retention has removed
\* what it had to remove; no other step logs that event.
C26_Theorem == [][C26_Step]_vars

\* a backup that found one of two enabled locations missing: a snapshot, the
\* status 'warning' and the event logged last
C26_Witness ==
  \E t \in Tasks :
    /\ tasks[t].op = "backup" /\ tasks[t].pc = "done" /\ ~tasks[t].rejected
    /\ tasks[t].result.kind = "snapshot"
    /\ tasks[t].warnings > 0
    /\ status[tasks[t].gameId] = "warning"
    /\ eventLog[tasks[t].gameId] # <<>>
    /\ eventLog[tasks[t].gameId][Len(eventLog[tasks[t].gameId])].text = "Snapshot created"

\* ------------------------------------------------------------------- C27
\* C27: the storage folders buildLocationStorageFolders gives the enabled
\* locations of a snapshot differ pairwise when compared without case, for
\* names that are equal, differ only in case or already carry a suffix; and
\* no two files of different locations are copied to the same path of the
\* snapshot.
C27_Theorem ==
  folderRun.pc = "copy" =>
    /\ Len(folderRun.folders) = Len(folderRun.locations)
    /\ \A i \in 1..Len(folderRun.folders), j \in 1..Len(folderRun.folders) :
         i # j => toLowerCase(folderRun.folders[i]) # toLowerCase(folderRun.folders[j])
    /\ \A i \in 1..Len(folderRun.copies), j \in 1..Len(folderRun.copies) :
         folderRun.copies[i].location_id # folderRun.copies[j].location_id =>
           folderRun.copies[i].destPath # folderRun.copies[j].destPath

\* 'Saves', 'Saves (2)' and 'saves' in one snapshot: the third location gets
\* 'saves (3)', and the three files are copied to three paths
C27_Witness ==
  /\ folderRun.pc = "copy"
  /\ Len(folderRun.locations) = 3
  /\ basename(folderRun.locations[1].path) = <<"Saves">>
  /\ basename(folderRun.locations[2].path) = <<"Saves", " (2)">>
  /\ basename(folderRun.locations[3].path) = <<"saves">>
  /\ folderRun.folders = <<<<"Saves">>, <<"Saves", " (2)">>, <<"saves", " (3)">>>>
  /\ Len(folderRun.copies) = 3

\* ------------------------------------------------------------------- C28
\* C28 as stated: whatever the interleaving of scanSnapshotsFromDisk and
\* backupGame, no two snapshot rows of the index have the same id or the same
\* storage directory. The scan decides with the ids and paths it noted at its
\* start and pushes what it found without looking at the index again.
C28_Original ==
  \A i \in 1..Len(snapshots), j \in 1..Len(snapshots) :
    i # j =>
      /\ snapshots[i].id # snapshots[j].id
      /\ snapshots[i].storage_path # snapshots[j].storage_path

\* ------------------------------------------------------------------- C29
\* the step that is a whole call of scanSnapshotsFromDisk by task t
ScanReturns(t) ==
  /\ opsStarted' = opsStarted + 1
  /\ tasks'[t].op = "scan" /\ tasks'[t].pc = "done"
\* the rows of the index whose directory exists, and the file rows of these
RowsWithDirectory ==
  SelectSeq(snapshots, LAMBDA row : isDirectoryPath(snapDirs, row.storage_path))
FileRowsWithDirectory ==
  SelectSeq(snapshotFiles,
            LAMBDA file : \A i \in 1..Len(snapshots) :
                            snapshots[i].id = file.snapshot_id =>
                              isDirectoryPath(snapDirs, snapshots[i].storage_path))
C29_Step ==
  \A t \in Tasks :
    ScanReturns(t) =>
      LET counts == tasks'[t].result.scan
          kept == Len(RowsWithDirectory)
          keptFiles == Len(FileRowsWithDirectory)
      IN \* no row is left whose storage_path is no directory
         /\ \A i \in 1..Len(snapshots') :
              isDirectoryPath(snapDirs', snapshots'[i].storage_path)
         /\ \A i \in 1..Len(snapshots) :
              ~isDirectoryPath(snapDirs, snapshots[i].storage_path) =>
                /\ snapshots[i] \notin Range(snapshots')
                \* and no file row of it
                /\ \A j \in 1..Len(snapshotFiles') :
                     snapshotFiles'[j].snapshot_id # snapshots[i].id
         \* the rows whose directory exists are as they were
         /\ Len(snapshots') >= kept
         /\ SubSeq(snapshots', 1, kept) = RowsWithDirectory
         /\ Len(snapshotFiles') >= keptFiles
         /\ SubSeq(snapshotFiles', 1, keptFiles) = FileRowsWithDirectory
         \* the counts of the result
         /\ counts.removed = Len(snapshots) - kept
         /\ counts.removedFiles = Len(snapshotFiles) - keptFiles
         /\ counts.added = Len(snapshots') - kept

\* C29: when scanSnapshotsFromDisk returns, every snapshot row whose
\* storage_path was no directory is gone with all its file rows, the rows and
\* file rows of the snapshots whose directory exists are unchanged,
\* removedSnapshots and removedSnapshotFiles are the numbers of rows removed
\* and addedSnapshots is the number of snapshot rows added.
C29_Theorem == [][C29_Step]_vars

\* a scan has pruned one snapshot row and its file row, and left another row
C29_Witness ==
  \E t \in Tasks :
    /\ tasks[t].op = "scan" /\ tasks[t].pc = "done"
    /\ tasks[t].result.scan.removed = 1
    /\ tasks[t].result.scan.removedFiles >= 1
    /\ Len(snapshots) >= 1

\* ------------------------------------------------------------------- C30
\* the id the manifest of a snapshot directory prefers
PreferredId(root) == trimId(snapDirs[root].manifest.snapshot_id)
\* the rows a scan step adds: those after the rows it keeps
ImportedRows == {i \in 1..Len(snapshots') : i > Len(RowsWithDirectory)}
C30_Step ==
  \A t \in Tasks :
    ScanReturns(t) =>
      /\ \A i \in ImportedRows :
           LET row == snapshots'[i] IN
           \* different from every id of the index and of the other imports
           /\ row.id \notin SnapshotIds
           /\ \A j \in 1..Len(snapshots') : j # i => snapshots'[j].id # row.id
           \* the id of the manifest when it is free, else a fresh one
           /\ row.id # PreferredId(row.storage_path) =>
                /\ \E j \in 1..Len(snapshots') :
                     j < i /\ snapshots'[j].id = PreferredId(row.storage_path)
                /\ row.id >= nextUuid /\ row.id < nextUuid'
           \* its file rows are those of its own directory
           /\ Cardinality({j \in 1..Len(snapshotFiles') :
                             snapshotFiles'[j].snapshot_id = row.id})
                = Cardinality(DOMAIN snapDirs[row.storage_path].files)
      /\ \A j \in 1..Len(snapshotFiles') :
           \E i \in 1..Len(snapshots') : snapshots'[i].id = snapshotFiles'[j].snapshot_id

\* C30: a scan that runs alone gives every snapshot it imports an id that no
\* row of the index and no other import of the scan has: the snapshot_id of
\* the manifest when no row has it yet, a fresh id otherwise; each imported
\* row has the file rows of its own directory under its own id.
C30_Theorem == [][C30_Step]_vars

\* two directories whose manifests carry the same snapshot_id were imported
\* as two rows with different ids
C30_Witness ==
  \E t \in Tasks, i \in 1..Len(snapshots), j \in 1..Len(snapshots) :
    /\ tasks[t].op = "scan" /\ tasks[t].pc = "done"
    /\ tasks[t].result.scan.added >= 2
    /\ i # j
    /\ snapshots[i].storage_path \in DOMAIN snapDirs
    /\ snapshots[j].storage_path \in DOMAIN snapDirs
    /\ PreferredId(snapshots[i].storage_path) = PreferredId(snapshots[j].storage_path)
    /\ snapshots[i].id # snapshots[j].id
    /\ \E f \in 1..Len(snapshotFiles) : snapshotFiles[f].snapshot_id = snapshots[i].id
    /\ \E f \in 1..Len(snapshotFiles) : snapshotFiles[f].snapshot_id = snapshots[j].id

\* ------------------------------------------------------------------- C31
\* what a parse of the file as it is, with no cache, returns
UncachedEntries == loadCatalogEntries(catalogRun.file, catalogRun.mtimeMs, NoCache).result

\* C31 (as stated): over rewrites that each change the modification time and
\* loads, every load returns what a parse of the file as it is returns.
C31_Original == catalogRun.pc = "loaded" => catalogRun.result = UncachedEntries

\* ------------------------------------------------------------------- C32
\* the start markers of a location string: at its start, or right after
\* whitespace, a comma, a semicolon or a pipe
StartMarkers(location) ==
  {i \in 1..Len(location) :
     /\ location[i] = "<t>"
     /\ (i = 1 \/ location[i - 1] \in {" ", "\n", ",", ";", "|"})}
IsPrefix(left, right) ==
  Len(left) <= Len(right) /\ SubSeq(right, 1, Len(left)) = left
\* one trimmed segment for each marker, in order, starting at its marker
OneSegmentPerMarker(location, segments) ==
  LET starts == sortedIndices(StartMarkers(location)) IN
  /\ Len(segments) = Len(starts)
  /\ \A i \in 1..Len(starts) :
       LET end == IF i < Len(starts) THEN starts[i + 1] ELSE Len(location) + 1
       IN /\ Head(segments[i]) = "<t>"
          /\ trim(segments[i]) = segments[i]
          /\ IsPrefix(segments[i],
                      trim(newlinesToBlanks(SubSeq(location, starts[i], end - 1))))
\* the non-empty trimmed parts between semicolons and line breaks
PartsBetweenBreaks(location) == trimmedNonEmpty(splitOnBreaks(location, <<>>))

\* C32 (as stated): a location string with two or more start markers gives one
\* trimmed segment for each marker, in order, starting at its marker; a string
\* with no start marker and several non-empty parts between semicolons and
\* line breaks gives these parts, trimmed.
C32_Original ==
  splitRun.pc = "done" =>
    /\ Cardinality(StartMarkers(splitRun.location)) >= 2 =>
         OneSegmentPerMarker(splitRun.location, splitRun.segments)
    /\ StartMarkers(splitRun.location) = {}
         /\ Len(PartsBetweenBreaks(splitRun.location)) > 1 =>
           splitRun.segments = PartsBetweenBreaks(splitRun.location)

\* ------------------------------------------------------------------- C33
\* the handler of call c finishes in this step
UpdateFinishes(c) ==
  /\ mainRun'.calls[c].pc = "done"
  /\ \/ UpdateUnderWay(mainRun.calls[c])
     \/ mainRun'.calls[c].serial # mainRun.calls[c].serial
\* recovery mode is left only in a step in which a settings:update returns
LeftOnlyBySuccess ==
  mainRun.recoveryMode /\ ~mainRun'.recoveryMode =>
    \E c \in UpdateCalls : UpdateFinishes(c) /\ mainRun'.calls[c].result = "ok"
\* a settings:update made in recovery mode has failed: recovery mode, no
\* database, the userData path the call found
StillInRecovery(c) ==
  /\ mainRun'.recoveryMode
  /\ ~mainRun'.db
  /\ mainRun'.userData = mainRun'.calls[c].previousUserData
RecoveryIffNoDb ==
  \A c \in UpdateCalls :
    UpdateFinishes(c) => (mainRun'.recoveryMode <=> ~mainRun'.db)
FailsInRecovery(c) ==
  /\ UpdateFinishes(c)
  /\ mainRun'.calls[c].recovering
  /\ mainRun'.calls[c].result = "failed"

C33_OriginalStep ==
  /\ LeftOnlyBySuccess
  /\ \A c \in UpdateCalls : FailsInRecovery(c) => StillInRecovery(c)
  /\ RecoveryIffNoDb
\* C33 (as stated): recovery mode is left only by a settings:update that
\* returns; a settings:update made in recovery mode that fails at any step
\* leaves the application in recovery mode with no database and the userData
\* path it found; when a handler has finished, recoveryMode is true exactly
\* when there is no database.
C33_Original == [][C33_OriginalStep]_vars

C33_Step ==
  /\ LeftOnlyBySuccess
  /\ \A c \in UpdateCalls :
       FailsInRecovery(c) /\ mainRun'.calls[c].alone => StillInRecovery(c)
  /\ RecoveryIffNoDb
\* C33: recovery mode is left only by a settings:update that returns; a
\* settings:update made in recovery mode that fails at any step, with no other
\* settings:update under way during it, leaves the application in recovery
\* mode with no database and the userData path it found; when a handler has
\* finished, recoveryMode is true exactly when there is no database.
C33_Theorem == [][C33_Step]_vars

\* a settings:update made in recovery mode has failed after app.setPath and
\* saveSettings: recovery mode, no database, the former userData path
C33_Witness ==
  \E c \in UpdateCalls :
    LET call == mainRun.calls[c] IN
    /\ mainRun.pc = "run"
    /\ call.pc = "done" /\ call.result = "failed" /\ call.recovering /\ call.alone
    /\ call.settledAt = "save"
    /\ call.previousUserData # toAppStatePath(call.requestedDataRoot)
    /\ mainRun.recoveryMode /\ ~mainRun.db
    /\ mainRun.userData = call.previousUserData

\* ------------------------------------------------------------------- C34
\* the backupGame call of task t settles in this step: it was past the
\* in-flight check, or it enters and settles at once without being rejected
BackupCallEnds(t) ==
  \/ tasks[t].pc \in BackupPcs /\ tasks'[t].pc \notin BackupPcs
  \/ BackupCalled(t) /\ tasks'[t].pc \notin BackupPcs /\ ~tasks'[t].rejected
C34_Step ==
  \* the call that settles leaves no mark
  /\ \A t \in Tasks :
       BackupCallEnds(t) =>
         (IF tasks[t].pc \in BackupPcs THEN tasks[t].gameId ELSE tasks'[t].gameId)
           \notin inFlight'
  \* every mark belongs to a call under way
  /\ \A g \in inFlight' :
       \E t \in Tasks : tasks'[t].pc \in BackupPcs /\ tasks'[t].gameId = g
  \* a call is rejected only while another call for the game is under way
  /\ \A t \in Tasks :
       BackupCalled(t) /\ tasks'[t].rejected =>
         \E u \in Tasks \ {t} : PastInFlightCheck(u, tasks'[t].gameId)

RestoreReturns(t) ==
  /\ tasks[t].op = "restore" /\ tasks[t].pc # "done"
  /\ tasks'[t].pc = "done" /\ tasks'[t].result = VoidResult
\* the file rows of the snapshot whose location the call found, enabled
RowsToRestore(t) ==
  {i \in 1..Len(tasks[t].rFiles) :
     ~RestoreSkipsLocation(FindLocation(tasks[t].rLocations,
                                        tasks[t].rFiles[i].location_id))}

\* C35 (as stated): a restoreSnapshot that returns and logs 'Snapshot restored'
\* has copied every file row of the snapshot whose location exists and is
\* enabled, under every interleaving with deleteSnapshot and with backups of
\* the same game.
C35_Original ==
  [][\A t \in Tasks :
       RestoreReturns(t) =>
         /\ \E i \in 1..Len(eventLog'[tasks[t].gameId]) :
              eventLog'[tasks[t].gameId][i].text = "Snapshot restored"
         /\ tasks'[t].written = Cardinality(RowsToRestore(t))]_vars

\* ------------------------------------------------------------------- C36
\* the backupGame call of task t, past the in-flight check for a game of the
\* index, returns null or throws in this step
BackupGivesNoSnapshot(t) ==
  /\ tasks[t].pc # "done" /\ tasks'[t].pc = "done"
  /\ tasks'[t].op = "backup"
  /\ ~tasks'[t].rejected
  /\ tasks'[t].gameId \in DOMAIN status'
  /\ tasks'[t].result.kind \in {"null", "throw"}

\* C36 (as stated): after a backupGame call has returned null or thrown, the
\* snapshot directory that call created is no directory any more.
C36_Original ==
  [][\A t \in Tasks :
       BackupGivesNoSnapshot(t) => tasks'[t].snapshotRoot \notin DOMAIN snapDirs']_vars

\* ------------------------------------------------------------------- C37
\* the retention step of task t removes the directory and rows of a snapshot
RetentionDeletes(t) ==
  tasks[t].pc = "retention" /\ tasks'[t] # tasks[t]
    /\ tasks[t].delTarget.storage_path \notin DOMAIN snapDirs'

\* C37 (as stated): when backupGame returns a snapshot, its row and file rows
\* are in the index and its directory exists; the retention step of the call
\* never deletes the snapshot the call has just created.
C37_Original ==
  [][\A t \in Tasks :
       /\ BackupReturns(t) =>
            /\ Returned(tasks'[t]) \in Range(snapshots')
            /\ \E i \in 1..Len(snapshotFiles') :
                 snapshotFiles'[i].snapshot_id = Returned(tasks'[t]).id
            /\ Returned(tasks'[t]).storage_path \in DOMAIN snapDirs'
       /\ RetentionDeletes(t) => tasks[t].delTarget.id # tasks[t].snapshotId]_vars

\* ------------------------------------------------------------------- C38
\* a scan that follows another one
SecondScan == gameRows.pc = "ready" /\ gameRows.scans >= 1 /\ gameRows' # gameRows

\* C38 (as stated): scanSnapshotsFromDisk is idempotent: a scan run right after another
\* one, with the disk left alone in between, returns addedSnapshots =
\* removedSnapshots = removedSnapshotFiles = 0, leaves the games with every
\* folder_name, the save locations, the snapshots and the file rows as they
\* were, and does not persist.
C38_Original ==
  [][SecondScan =>
       /\ gameRows'.result.added = 0
       /\ gameRows'.result.removed = 0
       /\ gameRows'.result.removedFiles = 0
       /\ gameRows'.rows = gameRows.rows
       /\ UNCHANGED <<status, saveLocations, snapshots, snapshotFiles>>
       /\ ~gameRows'.persisted]_vars

\* ------------------------------------------------------------------- C39
\* the user has picked the location in the confirmation dialog
UserPicked ==
  /\ applyRun.dialog = "shown"
  /\ applyRun.response < Len(dialogOptions(applyRun.candidates))
  /\ applyRun.added = <<dialogOptions(applyRun.candidates)[applyRun.response + 1].path>>
\* the title match is not ambiguous, the top candidate scores at least 0.75
\* and exceeds the second one, where there is one, by more than 0.1
ClearWinner ==
  /\ ~applyRun.titleAmbiguous
  /\ applyRun.candidates # <<>>
  /\ applyRun.candidates[1].score >= 75
  /\ Len(applyRun.candidates) >= 2 =>
       applyRun.candidates[1].score - applyRun.candidates[2].score > 10

\* C39 (as stated): after catalog detection for a newly added game, a save location is
\* added without the user choosing it only when the title match is not
\* ambiguous, the top candidate scores at least 0.75 and exceeds the second
\* candidate by more than 0.1; in every other case a location is added only
\* if the user picks it in the confirmation dialog, and none is added if the
\* user skips.
C39_Original ==
  applyRun.pc = "done" =>
    /\ applyRun.added # <<>> /\ ~UserPicked => ClearWinner
    /\ ~ClearWinner /\ applyRun.added # <<>> => UserPicked
    /\ applyRun.message = "skipped" => applyRun.added = <<>>

====
